---- MODULE Spec2Model ----
(***************************************************************************)
(* Bounded-horizon encoding of Dobutsu Shogi and the solver drivers built  *)
(* on it.  A "model" of the SMT formula is a trajectory: piece_type, the   *)
(* state layers 0..N and the move slots 0..N-1.  The backend's search is   *)
(* modelled as the step-by-step construction of such a trajectory: every   *)
(* constraint that mentions layer t+1 or slot t is a guard of the step     *)
(* that creates them.                                                      *)
(***************************************************************************)
EXTENDS Integers, Sequences, FiniteSets, TLC

VARIABLES problem, pc, piece_type, states, moves, result, request, backend

vars == <<problem, pc, piece_type, states, moves, result, request, backend>>

(***************************************************************************)
(* Domain types                                                            *)
(***************************************************************************)
LION == 0
GIRAFFE == 1
ELEPHANT == 2
CHICK == 3
HEN == 4

SENTE == 0
GOTE == 1

ROWS == 4
COLS == 3
N_PIECES == 8

PieceId == 0 .. (N_PIECES - 1)

PieceType_min_value == LION
PieceType_max_value == HEN

Abs(x) == IF x < 0 THEN -x ELSE x

\* An initial-piece descriptor.
PieceState(id, ty, ow, r, c) ==
    [piece_id |-> id, piece_type |-> ty, piece_owner |-> ow, row |-> r, col |-> c]

(***************************************************************************)
(* Horizon bound of the model                                              *)
(***************************************************************************)
MaxMoves == 3

(***************************************************************************)
(* Initial positions handed to the drivers                                 *)
(***************************************************************************)
\* Variant of the default setup with the second mover's Chick one file aside.
DEFAULT_INITIAL_SETUP_chick_aside ==
    << PieceState(0, ELEPHANT, SENTE, 1, 1),
       PieceState(1, LION, SENTE, 1, 2),
       PieceState(2, GIRAFFE, SENTE, 1, 3),
       PieceState(3, CHICK, SENTE, 2, 2),
       PieceState(4, GIRAFFE, GOTE, 4, 1),
       PieceState(5, LION, GOTE, 4, 2),
       PieceState(6, ELEPHANT, GOTE, 4, 3),
       PieceState(7, CHICK, GOTE, 3, 1) >>

DEFAULT_INITIAL_SETUP ==
    << PieceState(0, ELEPHANT, SENTE, 1, 1),
       PieceState(1, LION, SENTE, 1, 2),
       PieceState(2, GIRAFFE, SENTE, 1, 3),
       PieceState(3, CHICK, SENTE, 2, 2),
       PieceState(4, GIRAFFE, GOTE, 4, 1),
       PieceState(5, LION, GOTE, 4, 2),
       PieceState(6, ELEPHANT, GOTE, 4, 3),
       PieceState(7, CHICK, GOTE, 3, 2) >>

\* The tsume position of the examples: piece 7 is meant to be in Sente's hand
\* and carries the off-board sentinel (-1, -1).
tsume_position ==
    << PieceState(0, LION, SENTE, 3, 2),
       PieceState(1, GIRAFFE, SENTE, 2, 1),
       PieceState(2, ELEPHANT, SENTE, 2, 3),
       PieceState(7, CHICK, SENTE, -1, -1),
       PieceState(4, LION, GOTE, 4, 2) >>

\* Sente's Lion one step from the far rank.
try_position ==
    << PieceState(0, ELEPHANT, SENTE, 1, 1),
       PieceState(1, LION, SENTE, 3, 1),
       PieceState(2, GIRAFFE, SENTE, 1, 3),
       PieceState(3, CHICK, SENTE, 2, 2),
       PieceState(4, GIRAFFE, GOTE, 3, 3),
       PieceState(5, LION, GOTE, 4, 3),
       PieceState(6, ELEPHANT, GOTE, 2, 3),
       PieceState(7, CHICK, GOTE, 3, 2) >>

\* Gote owns nothing but its Lion, which Sente's Giraffe attacks.
lone_lion_position ==
    << PieceState(0, ELEPHANT, SENTE, 1, 1),
       PieceState(1, LION, SENTE, 1, 2),
       PieceState(2, GIRAFFE, SENTE, 3, 2),
       PieceState(3, CHICK, SENTE, 2, 2),
       PieceState(4, GIRAFFE, SENTE, 1, 3),
       PieceState(5, LION, GOTE, 4, 2),
       PieceState(6, ELEPHANT, SENTE, 2, 1),
       PieceState(7, CHICK, SENTE, 2, 3) >>

\* The default setup without a descriptor for piece 7.
free_piece_position == SubSeq(DEFAULT_INITIAL_SETUP, 1, 7)

\* Seven listed pieces, Gote's Lion one step from its far rank; piece 7 has
\* no descriptor.
gote_try_position ==
    << PieceState(0, ELEPHANT, SENTE, 1, 1),
       PieceState(1, LION, SENTE, 1, 2),
       PieceState(2, GIRAFFE, SENTE, 2, 1),
       PieceState(3, CHICK, SENTE, 2, 2),
       PieceState(4, GIRAFFE, GOTE, 4, 1),
       PieceState(5, LION, GOTE, 2, 3),
       PieceState(6, ELEPHANT, GOTE, 4, 3) >>

\* Sente's Giraffe attacks Gote's Lion, and Sente's Lion is one step from
\* the far rank.
lion_en_prise_position ==
    << PieceState(0, ELEPHANT, SENTE, 1, 1),
       PieceState(1, LION, SENTE, 3, 1),
       PieceState(2, GIRAFFE, SENTE, 3, 3),
       PieceState(3, CHICK, SENTE, 2, 2),
       PieceState(4, GIRAFFE, GOTE, 4, 2),
       PieceState(5, LION, GOTE, 4, 3),
       PieceState(6, ELEPHANT, GOTE, 2, 3),
       PieceState(7, CHICK, GOTE, 3, 2) >>

\* Sente's Chick is one step from the far rank, where it captures Gote's
\* Giraffe next to Gote's Lion.
hen_en_prise_position ==
    << PieceState(0, ELEPHANT, SENTE, 1, 1),
       PieceState(1, LION, SENTE, 1, 2),
       PieceState(2, GIRAFFE, SENTE, 1, 3),
       PieceState(3, CHICK, SENTE, 3, 1),
       PieceState(4, GIRAFFE, GOTE, 4, 1),
       PieceState(5, LION, GOTE, 4, 2),
       PieceState(6, ELEPHANT, GOTE, 4, 3),
       PieceState(7, CHICK, GOTE, 3, 3) >>

InitialStates ==
    [default |-> DEFAULT_INITIAL_SETUP, tsume |-> tsume_position,
     try |-> try_position, lone |-> lone_lion_position,
     free |-> free_piece_position, gote_try |-> gote_try_position,
     lion_en_prise |-> lion_en_prise_position,
     hen_en_prise |-> hen_en_prise_position]

(***************************************************************************)
(* Symbolic state: variable domains (GameState.get_basic_constraints)      *)
(*                                                                         *)
(* ty : PieceId -> kind      s : PieceId -> attributes of one state layer  *)
(* m  : one move slot                                                      *)
(***************************************************************************)
type_domain(ty) ==
    \A p \in PieceId : ty[p] >= PieceType_min_value /\ ty[p] <= PieceType_max_value

layer_domain(s) ==
    \A p \in PieceId :
        /\ s[p].owner >= 0 /\ s[p].owner <= 1
        /\ s[p].row >= 1 /\ s[p].row <= ROWS
        /\ s[p].col >= 1 /\ s[p].col <= COLS
        /\ s[p].in_hand_of >= -1 /\ s[p].in_hand_of <= 1

move_domain(m) ==
    /\ m.piece_id >= 0 /\ m.piece_id < N_PIECES
    /\ m.from_row >= 0 /\ m.from_row <= ROWS
    /\ m.from_col >= 0 /\ m.from_col <= COLS
    /\ m.to_row >= 1 /\ m.to_row <= ROWS
    /\ m.to_col >= 1 /\ m.to_col <= COLS
    /\ m.captures >= -1 /\ m.captures < N_PIECES

\* Every value a move slot can take within its domain.
MoveVariables ==
    [piece_id : PieceId, is_drop : BOOLEAN,
     from_row : 0 .. ROWS, from_col : 0 .. COLS,
     to_row : 1 .. ROWS, to_col : 1 .. COLS,
     captures : -1 .. (N_PIECES - 1)]

(***************************************************************************)
(* Initial-position pinning (GameState.set_initial_position)               *)
(***************************************************************************)
set_initial_position(initial_state, ty, s) ==
    \A i \in 1 .. Len(initial_state) :
        LET piece_state == initial_state[i]
            piece_id == piece_state.piece_id
        IN  /\ ty[piece_id] = piece_state.piece_type
            /\ s[piece_id].owner = piece_state.piece_owner
            /\ s[piece_id].row = piece_state.row
            /\ s[piece_id].col = piece_state.col
            /\ s[piece_id].captured = FALSE
            /\ s[piece_id].promoted = FALSE
            /\ s[piece_id].in_hand_of = -1

(***************************************************************************)
(* Basic invariants of one layer (GameRules.basic_constraints)             *)
(***************************************************************************)
\* Variant of no_overlap_constraints that compares consecutive ids only.
no_overlap_constraints_neighbours(s) ==
    \A p1 \in PieceId : \A p2 \in { q \in {p1 + 1} : q < N_PIECES } :
        (~s[p1].captured /\ ~s[p2].captured)
            => (s[p1].row # s[p2].row \/ s[p1].col # s[p2].col)

no_overlap_constraints(s) ==
    \A p1 \in PieceId : \A p2 \in (p1 + 1) .. (N_PIECES - 1) :
        (~s[p1].captured /\ ~s[p2].captured)
            => (s[p1].row # s[p2].row \/ s[p1].col # s[p2].col)

\* Variant of capture_hand_constraints with the implication one way only.
capture_hand_constraints_one_way(s) ==
    \A p \in PieceId : s[p].captured => (s[p].in_hand_of >= 0)

capture_hand_constraints(s) ==
    \A p \in PieceId : s[p].captured = (s[p].in_hand_of >= 0)

promotion_constraints(ty, s) ==
    \A p \in PieceId : s[p].promoted => ty[p] = CHICK

basic_constraints(ty, s) ==
    /\ no_overlap_constraints(s)
    /\ capture_hand_constraints(s)
    /\ promotion_constraints(ty, s)

(***************************************************************************)
(* Movement rules of slot t (GameRules.movement_constraints)               *)
(***************************************************************************)
\* Variant of player_ownership_constraints that compares with the first mover.
player_ownership_constraints_first_mover(s, m, current_player) ==
    \A p \in PieceId : (m.piece_id = p) => s[p].owner = SENTE

player_ownership_constraints(s, m, current_player) ==
    \A p \in PieceId : (m.piece_id = p) => s[p].owner = current_player

\* Variant of square_empty_or_opponent that admits every destination.
square_empty_or_opponent_unchecked(s, row, col, current_player) == TRUE

\* Variant of square_empty_or_opponent with the captured flag inverted.
square_empty_or_opponent_in_hand(s, row, col, current_player) ==
    \A p \in PieceId :
        LET occupied_by_p == s[p].captured /\ s[p].row = row /\ s[p].col = col
        IN  occupied_by_p => s[p].owner # current_player

square_empty_or_opponent(s, row, col, current_player) ==
    \A p \in PieceId :
        LET occupied_by_p == ~s[p].captured /\ s[p].row = row /\ s[p].col = col
        IN  occupied_by_p => s[p].owner # current_player

\* Variant of valid_move_pattern whose Giraffe may also step two squares.
valid_move_pattern_giraffe_two_steps(ty, s, m, piece_id) ==
    LET d_row == m.to_row - m.from_row
        d_col == m.to_col - m.from_col
        effective_type == IF s[piece_id].promoted THEN HEN ELSE ty[piece_id]
        forward == IF s[piece_id].owner = SENTE THEN d_row = 1 ELSE d_row = -1
    IN  /\ (effective_type = LION) =>
               (Abs(d_row) <= 1 /\ Abs(d_col) <= 1 /\ (d_row # 0 \/ d_col # 0))
        /\ (effective_type = GIRAFFE) =>
               \/ (d_row = 0 /\ (Abs(d_col) = 1 \/ Abs(d_col) = 2))
               \/ (d_col = 0 /\ (Abs(d_row) = 1 \/ Abs(d_row) = 2))
        /\ (effective_type = ELEPHANT) => (Abs(d_row) = 1 /\ Abs(d_col) = 1)
        /\ (effective_type = CHICK) => (forward /\ d_col = 0)
        /\ (effective_type = HEN) =>
               \/ (d_row = 0 /\ (d_col = 1 \/ d_col = -1))
               \/ (d_col = 0 /\ (d_row = 1 \/ d_row = -1))
               \/ (forward /\ (d_col = 1 \/ d_col = -1))

\* Variant of valid_move_pattern in which forward is +1 row for both players.
valid_move_pattern_forward_up(ty, s, m, piece_id) ==
    LET d_row == m.to_row - m.from_row
        d_col == m.to_col - m.from_col
        effective_type == IF s[piece_id].promoted THEN HEN ELSE ty[piece_id]
        forward == d_row = 1
    IN  /\ (effective_type = LION) =>
               (Abs(d_row) <= 1 /\ Abs(d_col) <= 1 /\ (d_row # 0 \/ d_col # 0))
        /\ (effective_type = GIRAFFE) =>
               \/ (d_row = 0 /\ (d_col = 1 \/ d_col = -1))
               \/ (d_col = 0 /\ (d_row = 1 \/ d_row = -1))
        /\ (effective_type = ELEPHANT) => (Abs(d_row) = 1 /\ Abs(d_col) = 1)
        /\ (effective_type = CHICK) => (forward /\ d_col = 0)
        /\ (effective_type = HEN) =>
               \/ (d_row = 0 /\ (d_col = 1 \/ d_col = -1))
               \/ (d_col = 0 /\ (d_row = 1 \/ d_row = -1))
               \/ (forward /\ (d_col = 1 \/ d_col = -1))

\* Variant of valid_move_pattern whose Chick pattern does not fix the column.
valid_move_pattern_chick_any_col(ty, s, m, piece_id) ==
    LET d_row == m.to_row - m.from_row
        d_col == m.to_col - m.from_col
        effective_type == IF s[piece_id].promoted THEN HEN ELSE ty[piece_id]
        forward == IF s[piece_id].owner = SENTE THEN d_row = 1 ELSE d_row = -1
    IN  /\ (effective_type = LION) =>
               (Abs(d_row) <= 1 /\ Abs(d_col) <= 1 /\ (d_row # 0 \/ d_col # 0))
        /\ (effective_type = GIRAFFE) =>
               \/ (d_row = 0 /\ (d_col = 1 \/ d_col = -1))
               \/ (d_col = 0 /\ (d_row = 1 \/ d_row = -1))
        /\ (effective_type = ELEPHANT) => (Abs(d_row) = 1 /\ Abs(d_col) = 1)
        /\ (effective_type = CHICK) => forward
        /\ (effective_type = HEN) =>
               \/ (d_row = 0 /\ (d_col = 1 \/ d_col = -1))
               \/ (d_col = 0 /\ (d_row = 1 \/ d_row = -1))
               \/ (forward /\ (d_col = 1 \/ d_col = -1))

valid_move_pattern(ty, s, m, piece_id) ==
    LET d_row == m.to_row - m.from_row
        d_col == m.to_col - m.from_col
        effective_type == IF s[piece_id].promoted THEN HEN ELSE ty[piece_id]
        forward == IF s[piece_id].owner = SENTE THEN d_row = 1 ELSE d_row = -1
    IN  /\ (effective_type = LION) =>
               (Abs(d_row) <= 1 /\ Abs(d_col) <= 1 /\ (d_row # 0 \/ d_col # 0))
        /\ (effective_type = GIRAFFE) =>
               \/ (d_row = 0 /\ (d_col = 1 \/ d_col = -1))
               \/ (d_col = 0 /\ (d_row = 1 \/ d_row = -1))
        /\ (effective_type = ELEPHANT) => (Abs(d_row) = 1 /\ Abs(d_col) = 1)
        /\ (effective_type = CHICK) => (forward /\ d_col = 0)
        /\ (effective_type = HEN) =>
               \/ (d_row = 0 /\ (d_col = 1 \/ d_col = -1))
               \/ (d_col = 0 /\ (d_row = 1 \/ d_row = -1))
               \/ (forward /\ (d_col = 1 \/ d_col = -1))

\* Variant of move_type_constraints whose drop branch ignores the holder.
move_type_constraints_drop_any_holder(ty, s, m, current_player) ==
    \A p \in PieceId :
        (m.piece_id = p) =>
            IF m.is_drop
            THEN /\ s[p].captured
                 /\ m.from_row = 0
                 /\ m.from_col = 0
                 /\ m.captures = -1
                 /\ square_empty_or_opponent(s, m.to_row, m.to_col, current_player)
            ELSE /\ ~s[p].captured
                 /\ m.from_row = s[p].row
                 /\ m.from_col = s[p].col
                 /\ valid_move_pattern(ty, s, m, p)
                 /\ square_empty_or_opponent(s, m.to_row, m.to_col, current_player)

\* Variant of move_type_constraints whose drop branch leaves captures free.
move_type_constraints_drop_may_capture(ty, s, m, current_player) ==
    \A p \in PieceId :
        (m.piece_id = p) =>
            IF m.is_drop
            THEN /\ s[p].captured
                 /\ s[p].in_hand_of = current_player
                 /\ m.from_row = 0
                 /\ m.from_col = 0
                 /\ square_empty_or_opponent(s, m.to_row, m.to_col, current_player)
            ELSE /\ ~s[p].captured
                 /\ m.from_row = s[p].row
                 /\ m.from_col = s[p].col
                 /\ valid_move_pattern(ty, s, m, p)
                 /\ square_empty_or_opponent(s, m.to_row, m.to_col, current_player)

move_type_constraints(ty, s, m, current_player) ==
    \A p \in PieceId :
        (m.piece_id = p) =>
            IF m.is_drop
            THEN /\ s[p].captured
                 /\ s[p].in_hand_of = current_player
                 /\ m.from_row = 0
                 /\ m.from_col = 0
                 /\ m.captures = -1
                 /\ square_empty_or_opponent(s, m.to_row, m.to_col, current_player)
            ELSE /\ ~s[p].captured
                 /\ m.from_row = s[p].row
                 /\ m.from_col = s[p].col
                 /\ valid_move_pattern(ty, s, m, p)
                 /\ square_empty_or_opponent(s, m.to_row, m.to_col, current_player)

\* Variant of capture_logic_constraints without the "nothing to capture" rule.
capture_logic_constraints_open(s, t, m) ==
    LET current_player == t % 2
    IN  \A p \in PieceId :
            ( /\ ~s[p].captured
              /\ p # m.piece_id
              /\ s[p].row = m.to_row
              /\ s[p].col = m.to_col
              /\ s[p].owner # current_player ) => m.captures = p

capture_logic_constraints(s, t, m) ==
    LET current_player == t % 2
        no_valid_capture ==
            \A p \in PieceId :
                \/ s[p].captured
                \/ p = m.piece_id
                \/ s[p].row # m.to_row
                \/ s[p].col # m.to_col
                \/ s[p].owner = current_player
    IN  /\ \A p \in PieceId :
               ( /\ ~s[p].captured
                 /\ p # m.piece_id
                 /\ s[p].row = m.to_row
                 /\ s[p].col = m.to_col
                 /\ s[p].owner # current_player ) => m.captures = p
        /\ no_valid_capture => m.captures = -1

\* Variant of piece_effect that puts a captured piece in its former owner's
\* hand while the ownership goes to the capturer.
piece_effect_held_by_victim(ty, s, t, m, p) ==
    LET current_player == t % 2
        is_moving == m.piece_id = p
        is_captured == m.captures = p /\ ~m.is_drop
        reaches_far_rank ==
            /\ ty[p] = CHICK
            /\ \/ (s[p].owner = SENTE /\ m.to_row = ROWS)
               \/ (s[p].owner = GOTE /\ m.to_row = 1)
    IN  IF is_moving
        THEN [row |-> m.to_row, col |-> m.to_col, captured |-> FALSE,
              in_hand_of |-> -1, owner |-> s[p].owner,
              promoted |-> IF reaches_far_rank THEN TRUE ELSE s[p].promoted]
        ELSE IF is_captured
             THEN [captured |-> TRUE, in_hand_of |-> 1 - current_player,
                   promoted |-> FALSE, owner |-> current_player,
                   row |-> s[p].row, col |-> s[p].col]
             ELSE s[p]

\* Variant of piece_effect that promotes on board moves only, not on drops.
piece_effect_drop_unpromoted(ty, s, t, m, p) ==
    LET current_player == t % 2
        is_moving == m.piece_id = p
        is_captured == m.captures = p /\ ~m.is_drop
        reaches_far_rank ==
            /\ ty[p] = CHICK
            /\ ~m.is_drop
            /\ \/ (s[p].owner = SENTE /\ m.to_row = ROWS)
               \/ (s[p].owner = GOTE /\ m.to_row = 1)
    IN  IF is_moving
        THEN [row |-> m.to_row, col |-> m.to_col, captured |-> FALSE,
              in_hand_of |-> -1, owner |-> s[p].owner,
              promoted |-> IF reaches_far_rank THEN TRUE ELSE s[p].promoted]
        ELSE IF is_captured
             THEN [captured |-> TRUE, in_hand_of |-> current_player,
                   promoted |-> FALSE, owner |-> current_player,
                   row |-> s[p].row, col |-> s[p].col]
             ELSE s[p]

\* Variant of piece_effect without the forced promotion of the mover.
piece_effect_no_promotion(ty, s, t, m, p) ==
    LET current_player == t % 2
        is_moving == m.piece_id = p
        is_captured == m.captures = p /\ ~m.is_drop
    IN  IF is_moving
        THEN [row |-> m.to_row, col |-> m.to_col, captured |-> FALSE,
              in_hand_of |-> -1, owner |-> s[p].owner,
              promoted |-> s[p].promoted]
        ELSE IF is_captured
             THEN [captured |-> TRUE, in_hand_of |-> current_player,
                   promoted |-> FALSE, owner |-> current_player,
                   row |-> s[p].row, col |-> s[p].col]
             ELSE s[p]

\* Variant of piece_effect that clears the promoted flag of unaffected pieces.
piece_effect_frame_demotes(ty, s, t, m, p) ==
    LET current_player == t % 2
        is_moving == m.piece_id = p
        is_captured == m.captures = p /\ ~m.is_drop
        reaches_far_rank ==
            /\ ty[p] = CHICK
            /\ \/ (s[p].owner = SENTE /\ m.to_row = ROWS)
               \/ (s[p].owner = GOTE /\ m.to_row = 1)
    IN  IF is_moving
        THEN [row |-> m.to_row, col |-> m.to_col, captured |-> FALSE,
              in_hand_of |-> -1, owner |-> s[p].owner,
              promoted |-> IF reaches_far_rank THEN TRUE ELSE s[p].promoted]
        ELSE IF is_captured
             THEN [captured |-> TRUE, in_hand_of |-> current_player,
                   promoted |-> FALSE, owner |-> current_player,
                   row |-> s[p].row, col |-> s[p].col]
             ELSE [s[p] EXCEPT !.promoted = FALSE]

\* Variant of piece_effect that hands a captured piece's ownership to the
\* player who did not move.
piece_effect_owner_to_opponent(ty, s, t, m, p) ==
    LET current_player == t % 2
        is_moving == m.piece_id = p
        is_captured == m.captures = p /\ ~m.is_drop
        reaches_far_rank ==
            /\ ty[p] = CHICK
            /\ \/ (s[p].owner = SENTE /\ m.to_row = ROWS)
               \/ (s[p].owner = GOTE /\ m.to_row = 1)
    IN  IF is_moving
        THEN [row |-> m.to_row, col |-> m.to_col, captured |-> FALSE,
              in_hand_of |-> -1, owner |-> s[p].owner,
              promoted |-> IF reaches_far_rank THEN TRUE ELSE s[p].promoted]
        ELSE IF is_captured
             THEN [captured |-> TRUE, in_hand_of |-> current_player,
                   promoted |-> FALSE, owner |-> 1 - current_player,
                   row |-> s[p].row, col |-> s[p].col]
             ELSE s[p]

\* Variant of piece_effect in which a captured piece keeps its owner.
piece_effect_keep_owner(ty, s, t, m, p) ==
    LET current_player == t % 2
        is_moving == m.piece_id = p
        is_captured == m.captures = p /\ ~m.is_drop
        reaches_far_rank ==
            /\ ty[p] = CHICK
            /\ \/ (s[p].owner = SENTE /\ m.to_row = ROWS)
               \/ (s[p].owner = GOTE /\ m.to_row = 1)
    IN  IF is_moving
        THEN [row |-> m.to_row, col |-> m.to_col, captured |-> FALSE,
              in_hand_of |-> -1, owner |-> s[p].owner,
              promoted |-> IF reaches_far_rank THEN TRUE ELSE s[p].promoted]
        ELSE IF is_captured
             THEN [captured |-> TRUE, in_hand_of |-> current_player,
                   promoted |-> FALSE, owner |-> s[p].owner,
                   row |-> s[p].row, col |-> s[p].col]
             ELSE s[p]

\* Variant of piece_effect whose captured piece keeps its promotion.
piece_effect_captured_stays_promoted(ty, s, t, m, p) ==
    LET current_player == t % 2
        is_moving == m.piece_id = p
        is_captured == m.captures = p /\ ~m.is_drop
        reaches_far_rank ==
            /\ ty[p] = CHICK
            /\ \/ (s[p].owner = SENTE /\ m.to_row = ROWS)
               \/ (s[p].owner = GOTE /\ m.to_row = 1)
    IN  IF is_moving
        THEN [row |-> m.to_row, col |-> m.to_col, captured |-> FALSE,
              in_hand_of |-> -1, owner |-> s[p].owner,
              promoted |-> IF reaches_far_rank THEN TRUE ELSE s[p].promoted]
        ELSE IF is_captured
             THEN [captured |-> TRUE, in_hand_of |-> current_player,
                   promoted |-> s[p].promoted, owner |-> current_player,
                   row |-> s[p].row, col |-> s[p].col]
             ELSE s[p]

\* The attributes the effect constraint pins for piece p in layer t+1.
piece_effect(ty, s, t, m, p) ==
    LET current_player == t % 2
        is_moving == m.piece_id = p
        is_captured == m.captures = p /\ ~m.is_drop
        reaches_far_rank ==
            /\ ty[p] = CHICK
            /\ \/ (s[p].owner = SENTE /\ m.to_row = ROWS)
               \/ (s[p].owner = GOTE /\ m.to_row = 1)
    IN  IF is_moving
        THEN [row |-> m.to_row, col |-> m.to_col, captured |-> FALSE,
              in_hand_of |-> -1, owner |-> s[p].owner,
              promoted |-> IF reaches_far_rank THEN TRUE ELSE s[p].promoted]
        ELSE IF is_captured
             THEN [captured |-> TRUE, in_hand_of |-> current_player,
                   promoted |-> FALSE, owner |-> current_player,
                   row |-> s[p].row, col |-> s[p].col]
             ELSE s[p]

move_effects_constraints(ty, s, t, m, s2) ==
    /\ \A p \in PieceId : s2[p] = piece_effect(ty, s, t, m, p)
    /\ capture_logic_constraints(s, t, m)

movement_constraints(ty, s, t, m, s2) ==
    LET current_player == t % 2
    IN  /\ player_ownership_constraints(s, m, current_player)
        /\ move_type_constraints(ty, s, m, current_player)
        /\ move_effects_constraints(ty, s, t, m, s2)

(***************************************************************************)
(* Victory predicate (GameRules.victory_conditions)                        *)
(***************************************************************************)
\* Variant of victory_conditions in which both players aim at row ROWS.
victory_conditions_same_rank(ty, s, player) ==
    \E p \in PieceId :
        LET is_opponent_lion == ty[p] = LION /\ s[p].owner # player
            is_own_lion == ty[p] = LION /\ s[p].owner = player
            reaches_back_rank == s[p].row = ROWS
        IN  \/ (is_opponent_lion /\ s[p].captured)
            \/ (is_own_lion /\ ~s[p].captured /\ reaches_back_rank)

victory_conditions(ty, s, player) ==
    \E p \in PieceId :
        LET is_opponent_lion == ty[p] = LION /\ s[p].owner # player
            is_own_lion == ty[p] = LION /\ s[p].owner = player
            reaches_back_rank == IF player = SENTE THEN s[p].row = ROWS ELSE s[p].row = 1
        IN  \/ (is_opponent_lion /\ s[p].captured)
            \/ (is_own_lion /\ ~s[p].captured /\ reaches_back_rank)

(***************************************************************************)
(* The common formula (create_base_solver): the conjunction of the domain  *)
(* constraints, the pinning, the basic invariants of every layer and the   *)
(* movement constraints of every slot, split by the layer / slot it reads. *)
(***************************************************************************)
\* Constraints that read only piece_type and layer 0.
initial_layer_constraints(initial_state, ty, s) ==
    /\ type_domain(ty)
    /\ layer_domain(s)
    /\ set_initial_position(initial_state, ty, s)
    /\ basic_constraints(ty, s)

\* Constraints that read slot t and layer t+1 (s is layer t, s2 is layer t+1).
slot_constraints(ty, s, t, m, s2) ==
    /\ move_domain(m)
    /\ movement_constraints(ty, s, t, m, s2)
    /\ layer_domain(s2)
    /\ basic_constraints(ty, s2)

\* Variant of create_base_solver whose last slot may not capture.
create_base_solver_quiet_last_slot(max_moves, initial_state, ty, ss, ms) ==
    /\ Len(ss) = max_moves + 1
    /\ Len(ms) = max_moves
    /\ initial_layer_constraints(initial_state, ty, ss[1])
    /\ \A t \in 0 .. (max_moves - 1) :
           /\ slot_constraints(ty, ss[t + 1], t, ms[t + 1], ss[t + 2])
           /\ (t = max_moves - 1) => ms[t + 1].captures = -1

\* create_base_solver: whether the layers ss (0..max_moves) and the slots ms
\* (0..max_moves-1) are a model of the formula built for max_moves.
create_base_solver(max_moves, initial_state, ty, ss, ms) ==
    /\ Len(ss) = max_moves + 1
    /\ Len(ms) = max_moves
    /\ initial_layer_constraints(initial_state, ty, ss[1])
    /\ \A t \in 0 .. (max_moves - 1) :
           slot_constraints(ty, ss[t + 1], t, ms[t + 1], ss[t + 2])

\* Layer t+1 as the equalities of the effect constraint define it.
NextLayer(ty, s, t, m) == [p \in PieceId |-> piece_effect(ty, s, t, m, p)]

(***************************************************************************)
(* Backend search space                                                    *)
(***************************************************************************)
\* All values of one piece's attributes within the variable domains.
LayerRecords ==
    [owner : 0 .. 1, row : 1 .. ROWS, col : 1 .. COLS, captured : BOOLEAN,
     promoted : BOOLEAN, in_hand_of : -1 .. 1]

\* The values the pinning leaves for piece p: the descriptor's, if the list
\* names p; anything within the domains otherwise.
PieceChoices(initial_state, p) ==
    LET pins == { <<initial_state[i].piece_type,
                    [owner |-> initial_state[i].piece_owner,
                     row |-> initial_state[i].row, col |-> initial_state[i].col,
                     captured |-> FALSE, promoted |-> FALSE, in_hand_of |-> -1]>> :
                  i \in { j \in 1 .. Len(initial_state) : initial_state[j].piece_id = p } }
    IN  IF pins = {}
        THEN (PieceType_min_value .. PieceType_max_value) \X LayerRecords
        ELSE IF Cardinality(pins) = 1 THEN pins ELSE {}

Pinned(initial_state) == { initial_state[i].piece_id : i \in 1 .. Len(initial_state) }

RECURSIVE LayerChoices(_, _)
LayerChoices(initial_state, todo) ==
    IF todo = {}
    THEN { << >> }
    ELSE LET p == CHOOSE q \in todo : \A r \in todo : q >= r
         IN  { Append(f, c) : f \in LayerChoices(initial_state, todo \ {p}),
                              c \in PieceChoices(initial_state, p) }

\* The assignments <<piece_type, layer 0>> that satisfy every constraint on
\* layer 0.  A pinned value outside its domain leaves none.
InitialLayers(initial_state) ==
    IF \E p \in Pinned(initial_state) :
           \A c \in PieceChoices(initial_state, p) :
               ~(/\ c[1] >= PieceType_min_value /\ c[1] <= PieceType_max_value
                 /\ c[2].owner >= 0 /\ c[2].owner <= 1
                 /\ c[2].row >= 1 /\ c[2].row <= ROWS
                 /\ c[2].col >= 1 /\ c[2].col <= COLS)
    THEN {}
    ELSE { a \in { << [p \in PieceId |-> f[p + 1][1]], [p \in PieceId |-> f[p + 1][2]] >> :
                   f \in LayerChoices(initial_state, PieceId) } :
             initial_layer_constraints(initial_state, a[1], a[2]) }

\* Slot values left by the equalities of the move-type constraint: is_drop
\* follows the mover's captured flag and the from-square is the mover's
\* square, or (0,0) for a drop.
SlotCandidates(s, t) ==
    UNION { { [piece_id |-> p, is_drop |-> s[p].captured,
               from_row |-> IF s[p].captured THEN 0 ELSE s[p].row,
               from_col |-> IF s[p].captured THEN 0 ELSE s[p].col,
               to_row |-> r, to_col |-> c, captures |-> q] :
              r \in 1 .. ROWS, c \in 1 .. COLS, q \in -1 .. (N_PIECES - 1) } :
            p \in PieceId }

\* The pairs <<slot t, layer t+1>> the formula admits after layer s.
Successors(ty, s, t) ==
    { <<m, NextLayer(ty, s, t, m)>> :
        m \in { x \in SlotCandidates(s, t) :
                  slot_constraints(ty, s, t, x, NextLayer(ty, s, t, x)) } }

(***************************************************************************)
(* Problems and solutions                                                  *)
(***************************************************************************)
Position(r, c) == [row |-> r, col |-> c]

ReachabilityProblem(init, id, tgt, pl, n) ==
    [kind |-> "reachability", initial_state |-> init, piece_id |-> id,
     target |-> tgt, player |-> pl, max_moves |-> n]

CheckmateProblem(init, pl, n) ==
    [kind |-> "checkmate", initial_state |-> init, winning_player |-> pl,
     max_moves |-> n]

\* An extra predicate of a TsumeProblem: pred is asserted of layer t.
TsumeProblem(init, cs, n) ==
    [kind |-> "tsume", initial_state |-> init, constraints |-> cs,
     max_moves |-> n]

ExtraConstraint(t, pred) == [t |-> t, pred |-> pred]

\* A call DobutsuShogiZ3(max_moves, initial_setup).solve_mate_in_n(n, winner).
MateInNProblem(init, pl, n, max_moves) ==
    [kind |-> "mate_in_n", initial_state |-> init, winning_player |-> pl,
     n |-> n, max_moves |-> max_moves]

\* The entry point called and the horizon cap its caller supplied.
Request(entry, cap) == [entry |-> entry, max_moves |-> cap]

None == [kind |-> "None"]

\* The exception raised by the api entry points.
ValueError == [kind |-> "ValueError"]

NoResult == [kind |-> "pending"]

\* The queries put to the drivers.
Problems ==
    { ReachabilityProblem(q[1], q[2], q[3], SENTE, n) :
        q \in { <<"default", 3, Position(3, 2)>>,
                <<"default", 3, Position(4, 2)>>,
                <<"default", 2, Position(1, 3)>>,
                <<"try", 1, Position(4, 2)>>,
                <<"lone", 2, Position(4, 2)>>,
                <<"tsume", 7, Position(4, 1)>> },
        n \in 0 .. MaxMoves }
    \cup
    { ReachabilityProblem("free", 7, Position(3, 2), SENTE, 1) }
    \cup
    { ReachabilityProblem("default", 3, Position(2, 2), SENTE, n) : n \in 0 .. 1 }
    \cup
    { CheckmateProblem("lion_en_prise", SENTE, 3) }
    \cup
    { TsumeProblem("default", << >>, -1),
      TsumeProblem("default", << >>, 0),
      TsumeProblem("default", << >>, 1),
      TsumeProblem("default", << ExtraConstraint(1, "piece_3_on_row_3") >>, 1),
      TsumeProblem("default", << ExtraConstraint(0, "piece_3_on_row_3") >>, 1),
      TsumeProblem("default", << ExtraConstraint(0, "piece_3_on_row_2") >>, 0) }
    \cup
    { CheckmateProblem(q[1], q[2], n) :
        q \in { <<"default", SENTE>>, <<"default", GOTE>>,
                <<"try", SENTE>>, <<"try", GOTE>>,
                <<"tsume", SENTE>> },
        n \in 0 .. MaxMoves }

(***************************************************************************)
(* Model decoding (extract_moves)                                          *)
(***************************************************************************)
\* Variant of extract_moves that reads the destination from the from-square.
extract_moves_to_from(ty, ms, n_moves) ==
    [i \in 1 .. n_moves |->
        LET t == i - 1
            move == ms[i]
        IN  [move_number |-> t,
             player |-> IF t % 2 = 0 THEN "Sente" ELSE "Gote",
             piece_id |-> move.piece_id,
             is_drop |-> move.is_drop,
             from_ |-> Position(move.from_row, move.from_col),
             to |-> Position(move.from_row, move.from_col),
             captures |-> move.captures,
             piece_type |-> ty[move.piece_id]]]

\* Variant of extract_moves that numbers the records from one.
extract_moves_one_based(ty, ms, n_moves) ==
    [i \in 1 .. n_moves |->
        LET move == ms[i]
        IN  [move_number |-> i,
             player |-> IF (i - 1) % 2 = 0 THEN "Sente" ELSE "Gote",
             piece_id |-> move.piece_id,
             is_drop |-> move.is_drop,
             from_ |-> Position(move.from_row, move.from_col),
             to |-> Position(move.to_row, move.to_col),
             captures |-> move.captures,
             piece_type |-> ty[move.piece_id]]]

extract_moves(ty, ms, n_moves) ==
    [i \in 1 .. n_moves |->
        LET t == i - 1
            move == ms[i]
        IN  [move_number |-> t,
             player |-> IF t % 2 = 0 THEN "Sente" ELSE "Gote",
             piece_id |-> move.piece_id,
             is_drop |-> move.is_drop,
             from_ |-> Position(move.from_row, move.from_col),
             to |-> Position(move.to_row, move.to_col),
             captures |-> move.captures,
             piece_type |-> ty[move.piece_id]]]

(***************************************************************************)
(* Driver-specific constraints                                             *)
(***************************************************************************)
\* ReachabilitySolver.solve: the target condition of one layer.
piece_at_target(pr, s) ==
    /\ s[pr.piece_id].row = pr.target.row
    /\ s[pr.piece_id].col = pr.target.col
    /\ s[pr.piece_id].owner = pr.player
    /\ s[pr.piece_id].captured = FALSE

\* ReachabilitySolver.solve: Or over the layers 0..max_moves.
reachability_conditions(pr, ss) ==
    \E i \in 1 .. Len(ss) : piece_at_target(pr, ss[i])

\* Variant of reached_time that keeps scanning and ends on the latest layer.
reached_time_latest(pr, ss) ==
    CHOOSE t \in 0 .. (Len(ss) - 1) :
        /\ piece_at_target(pr, ss[t + 1])
        /\ \A u \in (t + 1) .. (Len(ss) - 1) : ~piece_at_target(pr, ss[u + 1])

\* ReachabilitySolver.solve: the earliest layer of the model at the target.
reached_time(pr, ss) ==
    CHOOSE t \in 0 .. (Len(ss) - 1) :
        /\ piece_at_target(pr, ss[t + 1])
        /\ \A u \in 0 .. (t - 1) : ~piece_at_target(pr, ss[u + 1])

\* Variant of checkmate_constraints that asserts nothing before the horizon.
checkmate_constraints_final_only(pr, ty, s, t) ==
    (t = pr.max_moves) => victory_conditions(ty, s, pr.winning_player)

\* CheckmateSolver.solve: what the driver asserts about layer t.
checkmate_constraints(pr, ty, s, t) ==
    IF t = pr.max_moves
    THEN victory_conditions(ty, s, pr.winning_player)
    ELSE ~victory_conditions(ty, s, pr.winning_player)

\* The caller's extra predicates, by name.
extra_predicate(pred, ty, s) ==
    CASE pred = "piece_3_on_row_3" -> s[3].row = 3
      [] pred = "piece_3_on_row_2" -> s[3].row = 2

\* TsumeSolver.solve: the And of the caller's constraints, as far as they
\* speak of layer t.
tsume_constraints(pr, ty, s, t) ==
    \A i \in 1 .. Len(pr.constraints) :
        (pr.constraints[i].t = t) => extra_predicate(pr.constraints[i].pred, ty, s)

\* DobutsuShogiZ3._victory_condition_for_player.
victory_condition_for_player(ty, s, winning_player) ==
    \E p \in PieceId :
        LET is_opponent_lion == ty[p] = LION /\ s[p].owner # winning_player
            is_own_lion == ty[p] = LION /\ s[p].owner = winning_player
            reaches_back_rank ==
                IF winning_player = SENTE THEN s[p].row = ROWS ELSE s[p].row = 1
        IN  \/ (is_opponent_lion /\ s[p].captured)
            \/ (is_own_lion /\ ~s[p].captured /\ reaches_back_rank)

\* DobutsuShogiZ3.add_victory_condition: victory of the player to move at t.
add_victory_condition(ty, s, t) ==
    LET current_player == t % 2
    IN  \E p \in PieceId :
            LET is_opponent_lion == ty[p] = LION /\ s[p].owner # current_player
                is_own_lion == ty[p] = LION /\ s[p].owner = current_player
                reaches_back_rank ==
                    IF current_player = SENTE THEN s[p].row = ROWS ELSE s[p].row = 1
                lion_safe == TRUE
            IN  \/ (is_opponent_lion /\ s[p].captured)
                \/ (is_own_lion /\ ~s[p].captured /\ reaches_back_rank /\ lion_safe)

\* solve_mate_in_n: what it adds to the instance's formula about layer t.
mate_in_n_constraints(pr, ty, s, t) ==
    /\ (t = pr.n) => victory_condition_for_player(ty, s, pr.winning_player)
    /\ (t < pr.n) => ~add_victory_condition(ty, s, t)

\* What the driver of pr asserts about layer t alone.
driver_layer_constraints(pr, ty, s, t) ==
    /\ (pr.kind = "checkmate") => checkmate_constraints(pr, ty, s, t)
    /\ (pr.kind = "tsume") => tsume_constraints(pr, ty, s, t)
    /\ (pr.kind = "mate_in_n") => mate_in_n_constraints(pr, ty, s, t)

\* What the driver of pr asserts about the whole trajectory.
driver_model_constraints(pr, ss) ==
    (pr.kind = "reachability") => reachability_conditions(pr, ss)

\* Variants of the early returns: without the parity test, and with the
\* horizon test admitting zero.
rejected_no_parity(pr) == pr.max_moves <= 0

rejected_negative_only(pr) ==
    \/ pr.max_moves < 0
    \/ /\ pr.kind = "checkmate"
       /\ (pr.max_moves - 1) % 2 # pr.winning_player

\* Variant of the early returns in which reachability and
\* constraint-satisfaction encode a zero horizon and checkmate rejects it.
rejected_zero_horizon_encoded(pr) ==
    \/ pr.max_moves < 0
    \/ /\ pr.kind = "checkmate"
       /\ \/ pr.max_moves = 0
          \/ (pr.max_moves - 1) % 2 # pr.winning_player

\* The early returns of the solve methods.
rejected(pr) ==
    \/ pr.max_moves <= 0
    \/ /\ pr.kind = "checkmate"
       /\ (pr.max_moves - 1) % 2 # pr.winning_player

\* The early returns of solve_mate_in_n.
mate_in_n_rejected(pr) ==
    \/ pr.n > pr.max_moves
    \/ (pr.n - 1) % 2 # pr.winning_player

\* The early return of the entry point that pr is handed to.
early_return(pr) ==
    IF pr.kind = "mate_in_n" THEN mate_in_n_rejected(pr) ELSE rejected(pr)

(***************************************************************************)
(* solver.check(): whether the formula of pr has a model                   *)
(***************************************************************************)
RECURSIVE Completes(_, _, _, _, _)
Completes(pr, ty, s, t, hit) ==
    IF t = pr.max_moves
    THEN (pr.kind = "reachability") => hit
    ELSE \E x \in Successors(ty, s, t) :
             /\ driver_layer_constraints(pr, ty, x[2], t + 1)
             /\ Completes(pr, ty, x[2], t + 1,
                          hit \/ (pr.kind = "reachability" /\ piece_at_target(pr, x[2])))

check_sat(pr) ==
    \E a \in InitialLayers(InitialStates[pr.initial_state]) :
        /\ driver_layer_constraints(pr, a[1], a[2], 0)
        /\ Completes(pr, a[1], a[2], 0,
                     pr.kind = "reachability" /\ piece_at_target(pr, a[2]))

\* What solve returns for pr: a solution (TRUE) or None (FALSE).
solve_returns(pr) == ~rejected(pr) /\ check_sat(pr)

AtHorizon(pr, n) == [pr EXCEPT !.max_moves = n]

(***************************************************************************)
(* State machine                                                           *)
(***************************************************************************)
\* The horizon cap hard-wired in find_shortest_mate.
MATE_SEARCH_LIMIT == 15

\* The shortest wrappers: first horizon tried, step and last horizon tried.
\* Variant of first_horizon that starts every search at one.
first_horizon_one(entry, pr) == 1

first_horizon(entry, pr) ==
    IF entry = "find_shortest_mate"
    THEN (IF pr.winning_player = SENTE THEN 1 ELSE 2)
    ELSE 1

next_horizon_by_two(entry, n) == n + 2

next_horizon(entry, n) == IF entry = "find_shortest_mate" THEN n + 2 ELSE n + 1

max_search(rq) ==
    IF rq.entry = "find_shortest_mate"
    THEN (IF rq.max_moves < MATE_SEARCH_LIMIT THEN rq.max_moves ELSE MATE_SEARCH_LIMIT)
    ELSE rq.max_moves

Wrappers == {"find_shortest_path", "find_shortest_mate"}

\* can_reach: the owner of the target piece in the list, or -1 (None).
api_player(initial_state, piece_id) ==
    LET found == { i \in 1 .. Len(initial_state) : initial_state[i].piece_id = piece_id }
    IN  IF found = {}
        THEN -1
        ELSE initial_state[CHOOSE i \in found : \A j \in found : i <= j].piece_owner

\* can_reach raises before it builds the problem.
api_rejected(rq, pr) ==
    /\ rq.entry = "can_reach"
    /\ api_player(InitialStates[pr.initial_state], pr.piece_id) = -1

\* The calls made: <<request, first problem handed to solve>>.
ShortestCalls ==
    { << Request("find_shortest_path", MaxMoves),
         ReachabilityProblem(q[1], q[2], q[3], q[4], 1) >> :
        q \in { <<"default", 3, Position(4, 2), SENTE>>,
                <<"default", 7, Position(2, 2), GOTE>>,
                <<"lone", 2, Position(4, 2), SENTE>>,
                <<"tsume", 7, Position(4, 1), SENTE>> } }
    \cup
    { << Request("find_shortest_mate", MaxMoves),
         CheckmateProblem(q[1], q[2], first_horizon("find_shortest_mate", [winning_player |-> q[2]])) >> :
        q \in { <<"try", SENTE>>, <<"try", GOTE>>,
                <<"default", SENTE>>, <<"tsume", SENTE>> } }
    \cup
    { << Request("find_shortest_mate", MATE_SEARCH_LIMIT + 2),
         CheckmateProblem("tsume", SENTE, 1) >> }

ApiCalls ==
    { << Request("can_reach", 1),
         ReachabilityProblem(q[1], q[2], q[3], api_player(InitialStates[q[1]], q[2]), 1) >> :
        q \in { <<"free", 7, Position(3, 2)>>,
                <<"default", 3, Position(3, 2)>> } }

\* Calls of the legacy entry point.
MateInNCall(init, pl, n, max_moves) ==
    << Request("solve_mate_in_n", max_moves), MateInNProblem(init, pl, n, max_moves) >>

Calls ==
    { << Request("solve", pr.max_moves), pr >> : pr \in Problems }
        \cup ShortestCalls \cup ApiCalls
        \cup { MateInNCall("try", SENTE, 1, 1) }

Init ==
    /\ \E c \in Calls : request = c[1] /\ problem = c[2]
    /\ pc = "call"
    /\ piece_type = << >>
    /\ states = << >>
    /\ moves = << >>
    /\ result = NoResult
    /\ backend = "idle"

\* can_reach: the target piece is not in the list.
ApiReject ==
    /\ pc = "call"
    /\ api_rejected(request, problem)
    /\ pc' = "returned"
    /\ result' = ValueError
    /\ UNCHANGED <<problem, piece_type, states, moves, request, backend>>

\* solve: max_moves <= 0, or the winner would not make the last move.
SolveReject ==
    /\ pc = "call"
    /\ ~api_rejected(request, problem)
    /\ early_return(problem)
    /\ pc' = "returned"
    /\ result' = None
    /\ UNCHANGED <<problem, piece_type, states, moves, request, backend>>

\* create_base_solver and the backend's choice of piece_type and layer 0.
CreateBaseSolver ==
    /\ pc = "call"
    /\ ~api_rejected(request, problem)
    /\ ~early_return(problem)
    /\ \E a \in InitialLayers(InitialStates[problem.initial_state]) :
           /\ driver_layer_constraints(problem, a[1], a[2], 0)
           /\ piece_type' = a[1]
           /\ states' = << a[2] >>
    /\ pc' = "check"
    /\ backend' = "sat"
    /\ UNCHANGED <<problem, moves, result, request>>

\* The backend's choice of slot t and layer t+1.
SolverAssign ==
    /\ pc = "check"
    /\ Len(moves) < problem.max_moves
    /\ LET t == Len(moves)
       IN  \E x \in Successors(piece_type, states[t + 1], t) :
               /\ driver_layer_constraints(problem, piece_type, x[2], t + 1)
               /\ moves' = Append(moves, x[1])
               /\ states' = Append(states, x[2])
    /\ UNCHANGED <<problem, pc, piece_type, result, request, backend>>

\* solve: the backend reports unsat.
SolveUnsat ==
    /\ pc = "call"
    /\ ~api_rejected(request, problem)
    /\ ~early_return(problem)
    /\ ~check_sat(problem)
    /\ pc' = "returned"
    /\ result' = None
    /\ backend' = "unsat"
    /\ UNCHANGED <<problem, piece_type, states, moves, request>>

\* solve: the backend reports neither sat nor unsat.
SolveUnknown ==
    /\ pc = "call"
    /\ ~api_rejected(request, problem)
    /\ ~early_return(problem)
    /\ pc' = "returned"
    /\ result' = None
    /\ backend' = "unknown"
    /\ UNCHANGED <<problem, piece_type, states, moves, request>>

\* ReachabilitySolver.solve: the backend reports sat; decode the model.
ReachabilitySolve ==
    /\ pc = "check"
    /\ problem.kind = "reachability"
    /\ Len(moves) = problem.max_moves
    /\ driver_model_constraints(problem, states)
    /\ pc' = "returned"
    /\ result' = [kind |-> "ReachabilitySolution",
                  moves |-> extract_moves(piece_type, moves, reached_time(problem, states)),
                  piece_id |-> problem.piece_id,
                  reached |-> problem.target]
    /\ UNCHANGED <<problem, piece_type, states, moves, request, backend>>

\* CheckmateSolver.solve: the backend reports sat; decode the model.
CheckmateSolve ==
    /\ pc = "check"
    /\ problem.kind = "checkmate"
    /\ Len(moves) = problem.max_moves
    /\ driver_model_constraints(problem, states)
    /\ pc' = "returned"
    /\ result' = [kind |-> "CheckmateSolution",
                  moves |-> extract_moves(piece_type, moves, problem.max_moves),
                  winning_player |-> problem.winning_player,
                  mate_in |-> problem.max_moves]
    /\ UNCHANGED <<problem, piece_type, states, moves, request, backend>>

\* TsumeSolver.solve: the backend reports sat; decode the model.
TsumeSolve ==
    /\ pc = "check"
    /\ problem.kind = "tsume"
    /\ Len(moves) = problem.max_moves
    /\ driver_model_constraints(problem, states)
    /\ pc' = "returned"
    /\ result' = [kind |-> "TsumeSolution",
                  moves |-> extract_moves(piece_type, moves, problem.max_moves),
                  satisfied_constraints |-> problem.constraints]
    /\ UNCHANGED <<problem, piece_type, states, moves, request, backend>>

\* solve_mate_in_n: the backend reports sat; decode the first n slots.
SolveMateInN ==
    /\ pc = "check"
    /\ problem.kind = "mate_in_n"
    /\ Len(moves) = problem.max_moves
    /\ driver_model_constraints(problem, states)
    /\ pc' = "returned"
    /\ result' = [kind |-> "MoveDataList",
                  moves |-> extract_moves(piece_type, moves, problem.n)]
    /\ UNCHANGED <<problem, piece_type, states, moves, request, backend>>

\* find_shortest_path, find_shortest_mate: solve returned None and a further
\* horizon is within the cap; build the next problem and call solve again.
ShortestNext ==
    /\ pc = "returned"
    /\ result = None
    /\ request.entry \in Wrappers
    /\ next_horizon(request.entry, problem.max_moves) <= max_search(request)
    /\ problem' = [problem EXCEPT !.max_moves = next_horizon(request.entry, problem.max_moves)]
    /\ pc' = "call"
    /\ result' = NoResult
    /\ backend' = "idle"
    /\ UNCHANGED <<piece_type, states, moves, request>>

Next ==
    \/ ApiReject
    \/ SolveReject
    \/ CreateBaseSolver
    \/ SolverAssign
    \/ SolveUnsat
    \/ ReachabilitySolve
    \/ CheckmateSolve
    \/ TsumeSolve
    \/ SolveMateInN
    \/ ShortestNext

Spec == Init /\ [][Next]_vars

\* The same machine started on one query per initial position, at the
\* largest horizon (the layers of a shorter horizon are its prefixes).
EqProblems ==
    { ReachabilityProblem("default", 3, Position(4, 2), SENTE, MaxMoves),
      ReachabilityProblem("try", 1, Position(4, 2), SENTE, MaxMoves),
      ReachabilityProblem("lone", 2, Position(4, 2), SENTE, MaxMoves),
      ReachabilityProblem("tsume", 7, Position(4, 1), SENTE, 1),
      ReachabilityProblem("default", 3, Position(3, 2), SENTE, 0),
      CheckmateProblem("try", SENTE, 1),
      TsumeProblem("default", << ExtraConstraint(1, "piece_3_on_row_3") >>, 1) }

EqCalls ==
    { << Request("solve", pr.max_moves), pr >> : pr \in EqProblems }
    \cup
    { << Request("find_shortest_mate", MaxMoves), CheckmateProblem("tsume", SENTE, 1) >>,
      << Request("can_reach", 1), ReachabilityProblem("free", 7, Position(3, 2), -1, 1) >>,
      MateInNCall("try", SENTE, 1, 1) }

InitEq == Init /\ <<request, problem>> \in EqCalls

SpecEq == InitEq /\ [][Next]_vars

\* The machine started on calls of the legacy entry point, next to one call
\* of each other entry point.
MateInNCalls ==
    { MateInNCall(q[1], q[2], q[3], MaxMoves) :
        q \in { <<"try", SENTE, 1>>, <<"try", SENTE, 2>>, <<"try", SENTE, 3>>,
                <<"try", GOTE, 2>>, <<"try", SENTE, MaxMoves + 2>>,
                <<"default", SENTE, 3>>, <<"default", GOTE, 0>> } }
    \cup
    { MateInNCall("gote_try", GOTE, 2, 2), MateInNCall("try", SENTE, 1, 1) }

InitMateInN ==
    /\ \E c \in MateInNCalls \cup EqCalls : request = c[1] /\ problem = c[2]
    /\ pc = "call"
    /\ piece_type = << >>
    /\ states = << >>
    /\ moves = << >>
    /\ result = NoResult
    /\ backend = "idle"

SpecMateInN == InitMateInN /\ [][Next]_vars

\* The machine started on the calls of SpecEq, on the query whose list
\* leaves piece 7 to the backend and on a query in which a promoted Chick
\* can be captured.
StepCalls ==
    EqCalls \cup
    { << Request("solve", 1), ReachabilityProblem("free", 7, Position(3, 2), SENTE, 1) >>,
      << Request("solve", 2), ReachabilityProblem("hen_en_prise", 5, Position(4, 1), GOTE, 2) >> }

InitStep ==
    /\ \E c \in StepCalls : request = c[1] /\ problem = c[2]
    /\ pc = "call"
    /\ piece_type = << >>
    /\ states = << >>
    /\ moves = << >>
    /\ result = NoResult
    /\ backend = "idle"

SpecStep == InitStep /\ [][Next]_vars

\* The machine with a backend that may also fail to answer.
NextUnknown == Next \/ SolveUnknown

SpecUnknown == InitEq /\ [][NextUnknown]_vars

(***************************************************************************)
(* Properties                                                              *)
(***************************************************************************)
\* The time index of the newest layer and the player of a slot.
Now == Len(states) - 1

Mover(t) == t % 2

Opponent(pl) == 1 - pl

FarRank(pl) == IF pl = SENTE THEN 4 ELSE 1

\* Slots of the trajectory built so far, as time indices.
Slots == 0 .. (Len(moves) - 1)

\* The list pins all eight ids on distinct board squares.
FullySpecified(initial_state) ==
    /\ Pinned(initial_state) = PieceId
    /\ Len(initial_state) = N_PIECES
    /\ \A i \in 1 .. Len(initial_state) :
           /\ initial_state[i].row \in 1 .. 4
           /\ initial_state[i].col \in 1 .. 3
           /\ \A j \in 1 .. Len(initial_state) :
                  (i # j) => \/ initial_state[i].row # initial_state[j].row
                             \/ initial_state[i].col # initial_state[j].col

(***************************************************************************)
(* Reference simulator: the rules of the game applied move by move         *)
(***************************************************************************)
SimForward(ow) == IF ow = SENTE THEN 1 ELSE -1

SimOrthogonal == { <<1, 0>>, <<-1, 0>>, <<0, 1>>, <<0, -1>> }

SimDeltas(kind, ow) ==
    CASE kind = LION -> ({-1, 0, 1} \X {-1, 0, 1}) \ { <<0, 0>> }
      [] kind = GIRAFFE -> SimOrthogonal
      [] kind = ELEPHANT -> {-1, 1} \X {-1, 1}
      [] kind = CHICK -> { <<SimForward(ow), 0>> }
      [] kind = HEN -> SimOrthogonal \cup { <<SimForward(ow), -1>>, <<SimForward(ow), 1>> }

SimKind(ty, s, p) == IF s[p].promoted /\ ty[p] = CHICK THEN HEN ELSE ty[p]

SimOnSquare(s, r, c) == { q \in PieceId : ~s[q].captured /\ s[q].row = r /\ s[q].col = c }

\* The board moves and the drops open to the player of slot t.
SimMoves(ty, s, t) ==
    LET C == Mover(t)
        steps ==
            UNION { { [piece_id |-> p, is_drop |-> FALSE,
                      from_row |-> s[p].row, from_col |-> s[p].col,
                      to_row |-> s[p].row + d[1], to_col |-> s[p].col + d[2],
                      captures |-> IF SimOnSquare(s, s[p].row + d[1], s[p].col + d[2]) = {}
                                   THEN -1
                                   ELSE CHOOSE q \in SimOnSquare(s, s[p].row + d[1], s[p].col + d[2]) : TRUE] :
                      d \in { e \in SimDeltas(SimKind(ty, s, p), s[p].owner) :
                                /\ s[p].row + e[1] \in 1 .. 4
                                /\ s[p].col + e[2] \in 1 .. 3
                                /\ \A q \in SimOnSquare(s, s[p].row + e[1], s[p].col + e[2]) :
                                       s[q].owner # C } } :
                    p \in { x \in PieceId : s[x].owner = C /\ ~s[x].captured } }
        drops ==
            UNION { { [piece_id |-> p, is_drop |-> TRUE, from_row |-> 0, from_col |-> 0,
                      to_row |-> sq[1], to_col |-> sq[2], captures |-> -1] :
                      sq \in { e \in (1 .. 4) \X (1 .. 3) : SimOnSquare(s, e[1], e[2]) = {} } } :
                    p \in { x \in PieceId : s[x].owner = C /\ s[x].captured /\ s[x].in_hand_of = C } }
    IN  steps \cup drops

\* The position after move m of the player of slot t.
SimApply(ty, s, t, m) ==
    [r \in PieceId |->
        IF r = m.piece_id
        THEN [owner |-> s[r].owner, row |-> m.to_row, col |-> m.to_col,
              captured |-> FALSE, in_hand_of |-> -1,
              promoted |-> (ty[r] = CHICK /\ m.to_row = FarRank(s[r].owner)) \/ s[r].promoted]
        ELSE IF r = m.captures
             THEN [owner |-> Mover(t), row |-> s[r].row, col |-> s[r].col,
                   captured |-> TRUE, in_hand_of |-> Mover(t), promoted |-> FALSE]
             ELSE s[r]]

SimSteps(ty, s, t) == { <<m, SimApply(ty, s, t, m)>> : m \in SimMoves(ty, s, t) }

\* The position a fully specified descriptor list describes.
DescribedLayer(initial_state) ==
    [p \in PieceId |->
        LET d == CHOOSE i \in 1 .. Len(initial_state) : initial_state[i].piece_id = p
        IN  [owner |-> initial_state[d].piece_owner, row |-> initial_state[d].row,
             col |-> initial_state[d].col, captured |-> FALSE, promoted |-> FALSE,
             in_hand_of |-> -1]]

DescribedTypes(initial_state) ==
    [p \in PieceId |->
        LET d == CHOOSE i \in 1 .. Len(initial_state) : initial_state[i].piece_id = p
        IN  initial_state[d].piece_type]

\* Every <<slot t, layer t+1>> the formula admits, over the whole slot domain.
EncoderSteps(ty, s, t) ==
    { <<m, NextLayer(ty, s, t, m)>> :
        m \in { x \in MoveVariables :
                  slot_constraints(ty, s, t, x, NextLayer(ty, s, t, x)) } }

\* C1: from a fully specified initial position, the moves and successor
\* layers the encoder admits after any reachable layer are exactly those of
\* the reference simulator, so models and legal play sequences coincide.
C1_EncoderEqualsSimulator ==
    (pc = "check" /\ Len(moves) < problem.max_moves
        /\ FullySpecified(InitialStates[problem.initial_state]))
    => /\ EncoderSteps(piece_type, states[Now + 1], Now) = SimSteps(piece_type, states[Now + 1], Now)
       /\ Successors(piece_type, states[Now + 1], Now) = SimSteps(piece_type, states[Now + 1], Now)
       /\ InitialLayers(InitialStates[problem.initial_state])
              = { << DescribedTypes(InitialStates[problem.initial_state]),
                     DescribedLayer(InitialStates[problem.initial_state]) >> }

\* C1 witness: a complete three-move model with a capture and a later drop.
C1_Witness ==
    /\ pc = "check"
    /\ Len(moves) = 3
    /\ FullySpecified(InitialStates[problem.initial_state])
    /\ \E i \in 1 .. 3 : moves[i].captures >= 0
    /\ \E i \in 1 .. 3 : moves[i].is_drop

\* C2: a checkmate solution for winner W and horizon N comes from a
\* trajectory in which W's victory predicate is false at every t < N and
\* true at t = N.
C2_CheckmateOnlyAtHorizon ==
    (result.kind = "CheckmateSolution")
    => /\ Len(states) = problem.max_moves + 1
       /\ \A t \in 0 .. (problem.max_moves - 1) :
              ~victory_conditions(piece_type, states[t + 1], problem.winning_player)
       /\ victory_conditions(piece_type, states[problem.max_moves + 1], problem.winning_player)

\* C2 witness: a three-move checkmate solution has been returned.
C2_Witness == result.kind = "CheckmateSolution" /\ result.mate_in = 3

\* C3: if the move of slot t, made by player C, captures a Lion, the victory
\* predicate for C holds at t+1.
C3_LionCaptureWins ==
    \A t \in Slots :
        (moves[t + 1].captures >= 0 /\ piece_type[moves[t + 1].captures] = LION)
            => victory_conditions(piece_type, states[t + 2], Mover(t))

\* C4: the victory predicate for W at a layer holds exactly when a Lion not
\* owned by W is captured, or a Lion owned by W is uncaptured on W's far rank
\* (row 4 for the first mover, row 1 for the second).
C4_VictoryPredicate ==
    \A i \in 1 .. Len(states) : \A W \in {SENTE, GOTE} :
        LET lions == { p \in PieceId : piece_type[p] = LION }
            taken == { p \in lions : states[i][p].owner # W /\ states[i][p].captured }
            home == { p \in lions : /\ states[i][p].owner = W
                                    /\ ~states[i][p].captured
                                    /\ states[i][p].row = FarRank(W) }
        IN  victory_conditions(piece_type, states[i], W) <=> (taken # {} \/ home # {})

\* C4 witness: W's Lion stands uncaptured on W's far rank, the predicate
\* holds, and the opponent, who is to move, can capture that Lion.
C4_Witness ==
    /\ pc = "check"
    /\ \E p \in PieceId :
           LET W == Opponent(Mover(Now))
               s == states[Now + 1]
           IN  /\ piece_type[p] = LION
               /\ s[p].owner = W /\ ~s[p].captured /\ s[p].row = FarRank(W)
               /\ victory_conditions(piece_type, s, W)
               /\ \E x \in Successors(piece_type, s, Now) : x[1].captures = p

\* C5: a reachability solution with k moves comes from a trajectory in which
\* the target condition holds at time k and at no earlier time, and the
\* returned moves are the slots 0..k-1.
C5_ReachabilityEarliest ==
    (result.kind = "ReachabilitySolution")
    => LET k == Len(result.moves)
           AtTarget(s) == /\ s[problem.piece_id].row = problem.target.row
                          /\ s[problem.piece_id].col = problem.target.col
                          /\ s[problem.piece_id].owner = problem.player
                          /\ ~s[problem.piece_id].captured
       IN  /\ k <= problem.max_moves
           /\ AtTarget(states[k + 1])
           /\ \A t \in 0 .. (k - 1) : ~AtTarget(states[t + 1])
           /\ \A i \in 1 .. k :
                  /\ result.moves[i].move_number = i - 1
                  /\ result.moves[i].piece_id = moves[i].piece_id
                  /\ result.moves[i].is_drop = moves[i].is_drop
                  /\ result.moves[i].from_ = Position(moves[i].from_row, moves[i].from_col)
                  /\ result.moves[i].to = Position(moves[i].to_row, moves[i].to_col)
                  /\ result.moves[i].captures = moves[i].captures

\* C5 witness: a solution shorter than the horizon whose target condition
\* holds again at a later layer of the model.
C5_Witness ==
    /\ result.kind = "ReachabilitySolution"
    /\ Len(result.moves) >= 1
    /\ Len(result.moves) < problem.max_moves
    /\ \E i \in (Len(result.moves) + 2) .. Len(states) : piece_at_target(problem, states[i])

\* Whether the target piece stands on the target square for the player.
OnTarget(pr, s) ==
    /\ s[pr.piece_id].row = pr.target.row
    /\ s[pr.piece_id].col = pr.target.col
    /\ s[pr.piece_id].owner = pr.player
    /\ ~s[pr.piece_id].captured

\* Whether the reference simulator finds a legal play sequence from layer s
\* at time t that ends on the target within the horizon.
RECURSIVE SimReach(_, _, _, _)
SimReach(pr, ty, s, t) ==
    \/ OnTarget(pr, s)
    \/ /\ t < pr.max_moves
       /\ \E x \in SimSteps(ty, s, t) : SimReach(pr, ty, x[2], t + 1)

\* C6: for a fully specified position and a horizon N >= 1 the reachability
\* solve returns a solution exactly when some legal play sequence of k <= N
\* half-moves from the initial position ends with the target piece, owned by
\* the player and uncaptured, on the target square.
C6_ReachabilityIffPlayExists ==
    ( /\ pc = "returned"
      /\ problem.kind = "reachability"
      /\ problem.max_moves >= 1
      /\ FullySpecified(InitialStates[problem.initial_state]) )
    => ( (result.kind = "ReachabilitySolution")
         <=> SimReach(problem, DescribedTypes(InitialStates[problem.initial_state]),
                      DescribedLayer(InitialStates[problem.initial_state]), 0) )

\* Whether a descriptor carries the off-board sentinel.
HasSentinel(initial_state) ==
    \E i \in 1 .. Len(initial_state) :
        initial_state[i].row = -1 /\ initial_state[i].col = -1

\* C7: when a descriptor of the initial list carries the sentinel (-1, -1),
\* the formula stays satisfiable at layer 0 and every model has that piece
\* captured and held by its owner.
C7_SentinelPlacesInHand ==
    ( /\ pc # "call"
      /\ ~rejected(problem)
      /\ HasSentinel(InitialStates[problem.initial_state]) )
    => /\ InitialLayers(InitialStates[problem.initial_state]) # {}
       /\ \A a \in InitialLayers(InitialStates[problem.initial_state]) :
              \A i \in 1 .. Len(InitialStates[problem.initial_state]) :
                  LET d == InitialStates[problem.initial_state][i]
                  IN  (d.row = -1 /\ d.col = -1)
                          => /\ a[2][d.piece_id].captured
                             /\ a[2][d.piece_id].in_hand_of = d.piece_owner

\* Drop values of a move slot for piece p.
DropSlots(p) ==
    [piece_id : {p}, is_drop : {TRUE},
     from_row : 0 .. ROWS, from_col : 0 .. COLS,
     to_row : 1 .. ROWS, to_col : 1 .. COLS,
     captures : -1 .. (N_PIECES - 1)]

\* C8: no drop in a model lands on a square that holds an uncaptured piece
\* in the layer before it, and the move-type and capture rules alone refuse
\* every drop of a piece in hand onto such a square.
C8_NoDropOnOccupied ==
    /\ \A t \in Slots :
           moves[t + 1].is_drop
               => SimOnSquare(states[t + 1], moves[t + 1].to_row, moves[t + 1].to_col) = {}
    /\ (pc = "check")
           => \A p \in { x \in PieceId : states[Now + 1][x].captured } :
                  \A m \in DropSlots(p) :
                      ( /\ move_type_constraints(piece_type, states[Now + 1], m, Mover(Now))
                        /\ capture_logic_constraints(states[Now + 1], Now, m) )
                          => SimOnSquare(states[Now + 1], m.to_row, m.to_col) = {}

\* C8 witness: the player to move holds a piece in hand that was captured
\* earlier, after a drop has already been played.
C8_Witness ==
    /\ pc = "check"
    /\ \E t \in Slots : moves[t + 1].is_drop
    /\ \E p \in PieceId : /\ states[Now + 1][p].captured
                          /\ states[Now + 1][p].in_hand_of = Mover(Now)

\* C9: when the move of slot t by player C captures piece q, piece q at t+1
\* is captured, held and owned by C, unpromoted, and keeps its square.
C9_CaptureEffects ==
    \A t \in Slots :
        LET q == moves[t + 1].captures
            C == Mover(t)
        IN  (q >= 0)
                => /\ states[t + 2][q].captured
                   /\ states[t + 2][q].in_hand_of = C
                   /\ states[t + 2][q].owner = C
                   /\ ~states[t + 2][q].promoted
                   /\ states[t + 2][q].row = states[t + 1][q].row
                   /\ states[t + 2][q].col = states[t + 1][q].col

\* C9 witness: both players have captured a piece.
C9_Witness ==
    /\ \E t \in Slots : moves[t + 1].captures >= 0 /\ Mover(t) = SENTE
    /\ \E t \in Slots : moves[t + 1].captures >= 0 /\ Mover(t) = GOTE

\* C10: for a non-drop move by player C, captures is the unique uncaptured
\* opponent piece other than the mover on the destination square if there is
\* one, and -1 otherwise.
C10_CapturesDetermined ==
    \A t \in Slots :
        LET m == moves[t + 1]
            s == states[t + 1]
            victims == { q \in PieceId : /\ q # m.piece_id
                                         /\ ~s[q].captured
                                         /\ s[q].row = m.to_row
                                         /\ s[q].col = m.to_col
                                         /\ s[q].owner # Mover(t) }
        IN  (~m.is_drop)
                => /\ Cardinality(victims) <= 1
                   /\ (victims = {}) => m.captures = -1
                   /\ (victims # {}) => m.captures \in victims

\* C10 witness: a model with a capturing step and a non-capturing step.
C10_Witness ==
    /\ \E t \in Slots : ~moves[t + 1].is_drop /\ moves[t + 1].captures >= 0
    /\ \E t \in Slots : ~moves[t + 1].is_drop /\ moves[t + 1].captures = -1

\* C11: a drop by piece p at slot t is admitted only if p is captured and
\* held by the player to move; it has from = (0,0) and captures = -1, and at
\* t+1 piece p stands on the destination, uncaptured, in no hand, with its
\* owner unchanged.
C11_DropRule ==
    \A t \in Slots :
        LET m == moves[t + 1]
            p == moves[t + 1].piece_id
        IN  m.is_drop
                => /\ states[t + 1][p].captured
                   /\ states[t + 1][p].in_hand_of = Mover(t)
                   /\ m.from_row = 0 /\ m.from_col = 0
                   /\ m.captures = -1
                   /\ states[t + 2][p].row = m.to_row
                   /\ states[t + 2][p].col = m.to_col
                   /\ ~states[t + 2][p].captured
                   /\ states[t + 2][p].in_hand_of = -1
                   /\ states[t + 2][p].owner = states[t + 1][p].owner

\* C11 witness: slot 0 drops a piece that layer 0 places in the first
\* mover's hand, while another layer 0 of the same query has a piece of the
\* first mover in the second mover's hand.
C11_Witness ==
    /\ Len(moves) >= 1
    /\ moves[1].is_drop
    /\ \E a \in InitialLayers(InitialStates[problem.initial_state]) :
           \E p \in PieceId : /\ a[2][p].captured
                              /\ a[2][p].owner = SENTE
                              /\ a[2][p].in_hand_of = GOTE

\* C12: the piece that moves at slot t is promoted at t+1 if it is a Chick
\* and the destination row is the far rank of its owner at t; in every other
\* case its promoted flag at t+1 equals its promoted flag at t.
C12_PromotionForced ==
    \A t \in Slots :
        LET m == moves[t + 1]
            p == moves[t + 1].piece_id
            far == /\ piece_type[p] = CHICK
                   /\ m.to_row = FarRank(states[t + 1][p].owner)
        IN  IF far
            THEN states[t + 2][p].promoted
            ELSE states[t + 2][p].promoted = states[t + 1][p].promoted

\* C12 witness: an unpromoted Chick steps onto its owner's far rank.
C12_Witness ==
    \E t \in Slots :
        LET p == moves[t + 1].piece_id
        IN  /\ ~moves[t + 1].is_drop
            /\ piece_type[p] = CHICK
            /\ ~states[t + 1][p].promoted
            /\ moves[t + 1].to_row = FarRank(states[t + 1][p].owner)
            /\ states[t + 2][p].promoted

\* C13: every non-drop move of piece p goes from p's square by a delta of
\* p's effective kind (Hen if promoted, otherwise its kind), forward being
\* +1 row for the first mover's pieces and -1 for the second mover's.
C13_MoveGeometry ==
    \A t \in Slots :
        LET m == moves[t + 1]
            p == moves[t + 1].piece_id
            s == states[t + 1]
            kind == IF s[p].promoted THEN HEN ELSE piece_type[p]
        IN  (~m.is_drop)
                => /\ m.from_row = s[p].row /\ m.from_col = s[p].col
                   /\ <<m.to_row - m.from_row, m.to_col - m.from_col>>
                          \in SimDeltas(kind, s[p].owner)

\* C13 witness: an unpromoted Chick of the second mover has stepped, and
\* some piece has made a diagonal step.
C13_Witness ==
    /\ \E t \in Slots :
           /\ ~moves[t + 1].is_drop
           /\ piece_type[moves[t + 1].piece_id] = CHICK
           /\ ~states[t + 1][moves[t + 1].piece_id].promoted
           /\ states[t + 1][moves[t + 1].piece_id].owner = GOTE
    /\ \E t \in Slots :
           /\ ~moves[t + 1].is_drop
           /\ Abs(moves[t + 1].to_row - moves[t + 1].from_row) = 1
           /\ Abs(moves[t + 1].to_col - moves[t + 1].from_col) = 1

\* C14: no move lands on a square that holds an uncaptured piece of the
\* mover's side, captures never names a piece owned by the mover's side, and
\* the destination guard accepts exactly the squares free of such pieces.
C14_NoSelfCapture ==
    /\ \A t \in Slots :
           LET m == moves[t + 1]
               s == states[t + 1]
           IN  /\ \A q \in SimOnSquare(s, m.to_row, m.to_col) : s[q].owner # Mover(t)
               /\ (m.captures >= 0) => s[m.captures].owner # Mover(t)
    /\ (pc = "check")
           => \A C \in {SENTE, GOTE} : \A r \in 1 .. ROWS : \A c \in 1 .. COLS :
                  square_empty_or_opponent(states[Now + 1], r, c, C)
                      <=> (\A q \in SimOnSquare(states[Now + 1], r, c) :
                               states[Now + 1][q].owner # C)

\* C14 witness: a capturing step by a piece that had an uncaptured piece of
\* its own side on a neighbouring square.
C14_Witness ==
    \E t \in Slots :
        LET p == moves[t + 1].piece_id
            s == states[t + 1]
        IN  /\ moves[t + 1].captures >= 0
            /\ \E q \in PieceId \ {p} :
                   /\ ~s[q].captured /\ s[q].owner = Mover(t)
                   /\ Abs(s[q].row - s[p].row) <= 1
                   /\ Abs(s[q].col - s[p].col) <= 1

\* C15: the piece named by the move of slot t has, at time t, the owner
\* P(t mod 2).
C15_TurnParity ==
    \A t \in Slots : states[t + 1][moves[t + 1].piece_id].owner = t % 2

\* C15 witness: slot 2 moves a piece that the second mover owned at time 0.
C15_Witness ==
    /\ Len(moves) >= 3
    /\ states[1][moves[3].piece_id].owner = GOTE
    /\ states[3][moves[3].piece_id].owner = SENTE

\* C16: at every time of every model, two distinct uncaptured pieces stand
\* on different squares.
C16_NoTwoOnASquare ==
    \A i \in 1 .. Len(states) : \A p \in PieceId : \A q \in PieceId \ {p} :
        (~states[i][p].captured /\ ~states[i][q].captured)
            => <<states[i][p].row, states[i][p].col>> # <<states[i][q].row, states[i][q].col>>

\* C16 witness: a piece the initial list does not name stands on the board
\* at time 0 and a move has been made.
C16_Witness ==
    /\ Len(moves) >= 1
    /\ \E p \in PieceId \ Pinned(InitialStates[problem.initial_state]) :
           ~states[1][p].captured

\* C17: at every time each piece is in exactly one of three places: on the
\* board (not captured, holder -1), in the first mover's hand (captured,
\* holder 0) or in the second mover's hand (captured, holder 1).
C17_HandIntegrity ==
    \A i \in 1 .. Len(states) : \A p \in PieceId :
        LET on_board == ~states[i][p].captured /\ states[i][p].in_hand_of = -1
            in_hand(C) == states[i][p].captured /\ states[i][p].in_hand_of = C
        IN  /\ Cardinality({ k \in {-1, SENTE, GOTE} :
                               IF k = -1 THEN on_board ELSE in_hand(k) }) = 1
            /\ states[i][p].captured <=> (states[i][p].in_hand_of >= 0)

\* C17 witness: a layer with a piece in each hand, reached from a layer 0
\* that leaves a piece unpinned or by a capture of each player.
C17_Witness ==
    \E i \in 1 .. Len(states) :
        /\ \E p \in PieceId : states[i][p].captured /\ states[i][p].in_hand_of = SENTE
        /\ \E p \in PieceId : states[i][p].captured /\ states[i][p].in_hand_of = GOTE

\* C18: every piece that is neither moved or dropped nor captured at slot t
\* has the same attributes at t+1 as at t.
C18_Frame ==
    \A t \in Slots : \A r \in PieceId :
        (r # moves[t + 1].piece_id /\ r # moves[t + 1].captures)
            => states[t + 2][r] = states[t + 1][r]

\* C18 witness: a step that leaves a promoted piece on the board untouched.
C18_Witness ==
    \E t \in Slots :
        \E r \in PieceId \ {moves[t + 1].piece_id, moves[t + 1].captures} :
            /\ states[t + 1][r].promoted
            /\ ~states[t + 1][r].captured
            /\ states[t + 2][r].promoted

\* C19: a piece's owner at t+1 equals its owner at t, unless the move of
\* slot t captures it; then it equals the owner at t of the moving piece.
C19_OwnershipConservation ==
    \A t \in Slots : \A p \in PieceId :
        states[t + 2][p].owner
            = IF p = moves[t + 1].captures
              THEN states[t + 1][moves[t + 1].piece_id].owner
              ELSE states[t + 1][p].owner

\* C19 witness: the second mover captures a piece of the first mover and a
\* later slot has been filled.
C19_Witness ==
    \E t \in Slots :
        /\ t + 1 < Len(moves)
        /\ moves[t + 1].captures >= 0
        /\ states[t + 1][moves[t + 1].captures].owner = SENTE
        /\ states[t + 2][moves[t + 1].captures].owner = GOTE

\* The rule simulator's position after a decoded move record: it reads the
\* record's piece, drop flag and destination only.
SimPlay(ty, s, rec) ==
    LET p == rec.piece_id
        C == s[p].owner
        victims == IF rec.is_drop THEN {}
                   ELSE SimOnSquare(s, rec.to.row, rec.to.col) \ {p}
    IN  [r \in PieceId |->
            IF r = p
            THEN [owner |-> C, row |-> rec.to.row, col |-> rec.to.col,
                  captured |-> FALSE, in_hand_of |-> -1,
                  promoted |-> (ty[r] = CHICK /\ rec.to.row = FarRank(C)) \/ s[r].promoted]
            ELSE IF r \in victims
                 THEN [owner |-> C, row |-> s[r].row, col |-> s[r].col,
                       captured |-> TRUE, in_hand_of |-> C, promoted |-> FALSE]
                 ELSE s[r]]

\* The position after replaying the first n records on s.
RECURSIVE SimReplay(_, _, _, _)
SimReplay(ty, s, recs, n) ==
    IF n = 0 THEN s ELSE SimPlay(ty, SimReplay(ty, s, recs, n - 1), recs[n])

\* C20: two admitted successors of a layer that agree on the move's piece,
\* drop flag and destination are equal; and replaying the decoded records on
\* a fully specified initial position with the rule simulator reproduces
\* the model's layer at every time.
C20_SuccessorIsFunction ==
    /\ (pc = "check" /\ Len(moves) < problem.max_moves)
           => LET succ == Successors(piece_type, states[Now + 1], Now)
              IN  \A x \in succ : \A y \in succ :
                      ( /\ x[1].piece_id = y[1].piece_id
                        /\ x[1].is_drop = y[1].is_drop
                        /\ x[1].to_row = y[1].to_row
                        /\ x[1].to_col = y[1].to_col ) => x = y
    /\ (pc = "check" /\ FullySpecified(InitialStates[problem.initial_state]))
           => \A n \in 0 .. Len(moves) :
                  SimReplay(DescribedTypes(InitialStates[problem.initial_state]),
                            DescribedLayer(InitialStates[problem.initial_state]),
                            extract_moves(piece_type, moves, Len(moves)), n)
                      = states[n + 1]

\* C20 witness: a three-move model from a fully specified position with a
\* capture by the second mover and a promoted piece in the last layer.
C20_Witness ==
    /\ pc = "check"
    /\ FullySpecified(InitialStates[problem.initial_state])
    /\ Len(moves) = 3
    /\ moves[2].captures >= 0
    /\ \E p \in PieceId : states[4][p].promoted


(***************************************************************************)
(* The shortest wrappers and the drivers' early returns                    *)
(***************************************************************************)
InWrapper == request.entry \in Wrappers

\* The wrapper has returned: solve returned a solution, or no horizon is left.
WrapperFinished ==
    /\ InWrapper
    /\ pc = "returned"
    /\ ~(result = None /\ next_horizon(request.entry, problem.max_moves) <= max_search(request))

\* C21 (as the code has it): a shortest wrapper calls solve at increasing
\* horizons, so that whenever it calls solve at N, or returns solve's answer
\* for N, solve returns none at every smaller horizon; it returns the first
\* solution solve gives, and it returns none only when solve returns none at
\* every horizon up to the cap, where the cap of find_shortest_mate is the
\* smaller of problem.max_moves and 15.
C21_ShortestWithinSearchLimit ==
    (InWrapper /\ pc \in {"call", "returned"}) =>
        /\ problem.max_moves <= max_search(request)
        /\ \A n \in 1 .. problem.max_moves - 1 : ~solve_returns(AtHorizon(problem, n))
        /\ (pc = "returned") => (result # None <=> solve_returns(problem))
        /\ (WrapperFinished /\ result = None) =>
               \A n \in 1 .. max_search(request) : ~solve_returns(AtHorizon(problem, n))

\* A wrapper returned a solution of a horizon it reached after solve had
\* returned none at the horizons before.
C21_Witness ==
    /\ WrapperFinished
    /\ result # None
    /\ problem.max_moves > first_horizon(request.entry, problem)
    /\ Len(result.moves) > 0

\* C21 as stated: a wrapper that returns none has tried every admissible
\* horizon up to problem.max_moves.
C21_SearchesUpToCallerCap ==
    (WrapperFinished /\ result = None) =>
        /\ next_horizon(request.entry, problem.max_moves) > request.max_moves
        /\ \A n \in 1 .. request.max_moves : ~solve_returns(AtHorizon(problem, n))


\* C22: a driver that returns a solution at horizon N returns one at every
\* larger horizon (reachability), or at every larger horizon of the same
\* parity (checkmate), for the same initial position.
C22_MonotonicInHorizon ==
    (pc = "returned" /\ result \notin {None, ValueError}) =>
        /\ (problem.kind = "reachability") =>
               \A n \in problem.max_moves .. MaxMoves :
                   solve_returns(AtHorizon(problem, n))
        /\ (problem.kind = "checkmate") =>
               \A n \in problem.max_moves .. MaxMoves :
                   (n % 2 = problem.max_moves % 2) => solve_returns(AtHorizon(problem, n))


\* C23: CheckmateSolver.solve called with a horizon N whose last mover,
\* (N-1) mod 2, is not the winner returns none with no symbolic state
\* allocated and the backend never invoked.
C23_ParityRejection ==
    (/\ problem.kind = "checkmate"
     /\ (problem.max_moves - 1) % 2 # problem.winning_player) =>
        /\ backend = "idle"
        /\ piece_type = << >> /\ states = << >> /\ moves = << >>
        /\ (pc = "returned") => (result = None)
        /\ pc \in {"call", "returned"}

\* Sente as winner with N = 2 has been rejected.
C23_Witness ==
    /\ problem.kind = "checkmate"
    /\ problem.winning_player = SENTE
    /\ problem.max_moves = 2
    /\ pc = "returned"
    /\ result = None
    /\ backend = "idle"


\* C24: a solution returned by CheckmateSolver.solve for horizon N holds
\* exactly N move records, numbered 0 .. N-1 in order, and has mate_in = N.
C24_MateInHorizon ==
    (pc = "returned" /\ result.kind = "CheckmateSolution") =>
        /\ Len(result.moves) = problem.max_moves
        /\ \A i \in 1 .. Len(result.moves) : result.moves[i].move_number = i - 1
        /\ result.mate_in = problem.max_moves

\* A mate of more than one move has been returned.
C24_Witness ==
    /\ pc = "returned"
    /\ result.kind = "CheckmateSolution"
    /\ problem.max_moves >= 2
    /\ Len(result.moves) >= 2


\* C25: each of the three drivers, called with a horizon N <= 0, returns none
\* with no symbolic state allocated and the backend never invoked.
C25_NonPositiveHorizonRejected ==
    (problem.max_moves <= 0) =>
        /\ backend = "idle"
        /\ piece_type = << >> /\ states = << >> /\ moves = << >>
        /\ pc \in {"call", "returned"}
        /\ (pc = "returned") => (result = None)

\* The constraint-satisfaction driver has rejected N = 0.
C25_Witness ==
    /\ problem.kind = "tsume"
    /\ problem.max_moves = 0
    /\ pc = "returned"
    /\ result = None
    /\ backend = "idle"


\* The initial-piece list of the problem already has the target piece on the
\* target square, owned by the target player.
InitiallyAtTarget ==
    /\ problem.kind = "reachability"
    /\ \E i \in 1 .. Len(InitialStates[problem.initial_state]) :
           LET piece_state == InitialStates[problem.initial_state][i]
           IN  /\ piece_state.piece_id = problem.piece_id
               /\ piece_state.row = problem.target.row
               /\ piece_state.col = problem.target.col
               /\ piece_state.piece_owner = problem.player

\* The initial-piece list of the problem satisfies the extra predicates
\* (which, at horizon 0, can speak of layer 0 only).
InitiallySatisfiesExtras ==
    /\ problem.kind = "tsume"
    /\ \A i \in 1 .. Len(problem.constraints) :
           /\ problem.constraints[i].t = 0
           /\ \E j \in 1 .. Len(InitialStates[problem.initial_state]) :
                  LET piece_state == InitialStates[problem.initial_state][j]
                  IN  /\ piece_state.piece_id = 3
                      /\ piece_state.row =
                             (IF problem.constraints[i].pred = "piece_3_on_row_3" THEN 3 ELSE 2)

\* C26 (as the code has it): with horizon N = 0 each of the three drivers
\* returns none, also when the initial position already has the target piece
\* on the target square or satisfies the extra predicates.
C26_ZeroHorizonReturnsNone ==
    (problem.max_moves = 0 /\ pc = "returned") =>
        /\ result = None
        /\ (InitiallyAtTarget \/ InitiallySatisfiesExtras) => (backend = "idle")

\* The reachability driver returned none at N = 0 although the target piece
\* stands on the target square in the initial position.
C26_Witness ==
    /\ problem.max_moves = 0
    /\ pc = "returned"
    /\ InitiallyAtTarget
    /\ result = None

\* C26 as stated: with N = 0 the reachability driver returns a solution
\* exactly when the initial position satisfies the target, the checkmate
\* driver returns none, and the constraint-satisfaction driver returns a
\* solution exactly when the initial position satisfies the extras.
C26_ZeroHorizonSolved ==
    (problem.max_moves = 0 /\ pc = "returned") =>
        /\ (problem.kind = "reachability") =>
               (result.kind = "ReachabilitySolution" <=> InitiallyAtTarget)
        /\ (problem.kind = "checkmate") => (result = None)
        /\ (problem.kind = "tsume") =>
               (result.kind = "TsumeSolution" <=> InitiallySatisfiesExtras)


\* The target piece id of the reachability query is not in the initial list.
TargetPieceAbsent ==
    /\ problem.kind = "reachability"
    /\ api_player(InitialStates[problem.initial_state], problem.piece_id) = -1

\* C27: a reachability query whose target piece id is absent from the
\* initial-piece list is rejected, through every entry point, with no
\* encoding, no backend call, and an outcome that is not the none of an
\* unsatisfiable query.
C27_AbsentPieceRejected ==
    TargetPieceAbsent =>
        /\ backend = "idle"
        /\ piece_type = << >> /\ states = << >> /\ moves = << >>
        /\ (pc = "returned") => (result = ValueError)


\* C28: when the backend answers neither sat nor unsat, the driver reports
\* an outcome that is not the none it returns for unsat.
C28_BackendFailureDistinct ==
    (pc = "returned" /\ backend = "unknown") => (result # None)


\* C29: in every model, each piece id with no descriptor in the
\* initial-piece list is on the board at t = 0: not captured, and on a square
\* no other uncaptured piece occupies.
C29_UnpinnedOnBoard ==
    (states # << >>) =>
        \A p \in PieceId \ Pinned(InitialStates[problem.initial_state]) :
            /\ states[1][p].captured = FALSE
            /\ \A q \in PieceId \ {p} :
                   (states[1][q].captured = FALSE) =>
                       ~(/\ states[1][q].row = states[1][p].row
                         /\ states[1][q].col = states[1][p].col)


\* C30: from the default position with N = 1, the reachability query for
\* piece 3 to (3,2) owned by the first mover has a solution, and every
\* solution returned is the single move of piece 3 from (2,2) to (3,2),
\* not a drop, capturing piece 7.
C30_ChickCapturesChick ==
    (problem = ReachabilityProblem("default", 3, Position(3, 2), SENTE, 1)) =>
        /\ solve_returns(problem)
        /\ (pc = "returned") =>
               /\ result.kind = "ReachabilitySolution"
               /\ Len(result.moves) = 1
               /\ result.moves[1].move_number = 0
               /\ result.moves[1].piece_id = 3
               /\ result.moves[1].is_drop = FALSE
               /\ result.moves[1].from_ = Position(2, 2)
               /\ result.moves[1].to = Position(3, 2)
               /\ result.moves[1].captures = 7
               /\ moves = << [piece_id |-> 3, from_row |-> 2, from_col |-> 2,
                              to_row |-> 3, to_col |-> 2, captures |-> 7,
                              is_drop |-> FALSE] >>

\* The query has returned its solution.
C30_Witness ==
    /\ problem = ReachabilityProblem("default", 3, Position(3, 2), SENTE, 1)
    /\ request.entry = "solve"
    /\ pc = "returned"
    /\ result.kind = "ReachabilitySolution"
    /\ Len(result.moves) = 1


(***************************************************************************)
(* find_shortest_mate, drops on the far rank, hands, overlap, prefixes     *)
(***************************************************************************)
InMateSearch == request.entry = "find_shortest_mate"

\* C31: every call find_shortest_mate makes to solve has a horizon N >= 1
\* with (N-1) mod 2 the winner, so none is rejected by the parity check;
\* the horizon changes only after solve returned none, and then to a larger
\* one, so the search stops at the first horizon that yields a solution.
C31_MateSearchParity ==
    /\ [](InMateSearch =>
              /\ problem.max_moves >= 1
              /\ (problem.max_moves - 1) % 2 = problem.winning_player
              /\ ~rejected(problem))
    /\ [][(InMateSearch /\ problem' # problem) =>
              /\ pc = "returned" /\ result = None
              /\ problem'.max_moves > problem.max_moves
              /\ problem' = AtHorizon(problem, problem'.max_moves)]_vars

\* The search for the first mover has gone on from horizon 1 to horizon 3,
\* where solve was not rejected and has built its formula.
C31_Witness ==
    /\ InMateSearch
    /\ problem.winning_player = SENTE
    /\ problem.max_moves = 3
    /\ pc = "check"
    /\ backend = "sat"


\* C32: a piece of kind Chick that is dropped at slot t onto the far rank of
\* its owner at t is promoted and on the board at t+1.
C32_DroppedChickPromotes ==
    \A t \in Slots :
        LET m == moves[t + 1]
            p == moves[t + 1].piece_id
        IN  (/\ m.is_drop
             /\ piece_type[p] = CHICK
             /\ m.to_row = FarRank(states[t + 1][p].owner))
                => /\ states[t + 2][p].promoted = TRUE
                   /\ states[t + 2][p].captured = FALSE
                   /\ states[t + 2][p].row = m.to_row

\* A captured Chick, unpromoted in hand, has been dropped on the far rank of
\* the player holding it.
C32_Witness ==
    \E t \in Slots :
        LET m == moves[t + 1]
            p == moves[t + 1].piece_id
        IN  /\ m.is_drop
            /\ piece_type[p] = CHICK
            /\ states[t + 1][p].captured
            /\ ~states[t + 1][p].promoted
            /\ m.to_row = FarRank(states[t + 1][p].owner)
            /\ states[t + 2][p].promoted


\* C33: solve_mate_in_n(n, W) returns none when n exceeds the instance's
\* max_moves or W would not make move n-1, and every move sequence it
\* returns has n moves, taken from a model in which W's victory condition is
\* false at every t < n and true at t = n.
C33_MateInExactlyN ==
    (problem.kind = "mate_in_n" /\ pc = "returned") =>
        IF mate_in_n_rejected(problem)
        THEN result = None
        ELSE (result # None) =>
                 /\ Len(result.moves) = problem.n
                 /\ victory_condition_for_player(piece_type, states[problem.n + 1],
                                                 problem.winning_player)
                 /\ \A t \in 0 .. problem.n - 1 :
                        ~victory_condition_for_player(piece_type, states[t + 1],
                                                      problem.winning_player)


\* C34: when the initial list pins all eight pieces on the board, in every
\* layer every captured piece is held by its owner, and a drop is made by
\* the player who both owns and holds the piece.
C34_HolderIsOwner ==
    FullySpecified(InitialStates[problem.initial_state]) =>
        /\ \A i \in 1 .. Len(states) : \A p \in PieceId :
               states[i][p].captured => states[i][p].in_hand_of = states[i][p].owner
        /\ \A t \in Slots :
               moves[t + 1].is_drop =>
                   /\ states[t + 1][moves[t + 1].piece_id].in_hand_of = Mover(t)
                   /\ states[t + 1][moves[t + 1].piece_id].owner = Mover(t)

\* From a fully listed position a piece was captured, stayed in hand over the
\* opponent's move and was then dropped by its holder.
C34_Witness ==
    /\ FullySpecified(InitialStates[problem.initial_state])
    /\ \E t \in Slots :
           LET p == moves[t + 1].piece_id
           IN  /\ moves[t + 1].is_drop
               /\ t >= 2
               /\ states[t][p].captured
               /\ states[t][p].in_hand_of = Mover(t)


\* The slot values that the domain, ownership, move-type, capture-resolution
\* and effect constraints admit after the last layer built, whatever the
\* basic invariants say about the layer they lead to.
AdmittedMoves ==
    IF states = << >>
    THEN {}
    ELSE { m \in SlotCandidates(states[Len(states)], Now) :
             /\ move_domain(m)
             /\ movement_constraints(piece_type, states[Len(states)], Now, m,
                                     NextLayer(piece_type, states[Len(states)], Now, m)) }

\* C35: after a layer in which uncaptured pieces occupy distinct squares,
\* every move the ownership, move-type, capture-resolution and effect
\* constraints admit leads to a layer in which uncaptured pieces occupy
\* distinct squares; the no-overlap constraint of layer t+1 excludes none.
C35_TransitionKeepsNoOverlap ==
    (states # << >> /\ no_overlap_constraints(states[Len(states)])) =>
        \A m \in AdmittedMoves :
            no_overlap_constraints(NextLayer(piece_type, states[Len(states)], Now, m))

\* After the last layer the constraints admit a capture as well as a drop.
C35_Witness ==
    /\ states # << >>
    /\ \E m \in AdmittedMoves : m.captures >= 0
    /\ \E m \in AdmittedMoves : m.is_drop


\* C36: in a solution returned by CheckmateSolver.solve for horizon N,
\* neither player's victory predicate holds in any layer t < N.
C36_NoEarlierVictory ==
    (pc = "returned" /\ result.kind = "CheckmateSolution") =>
        \A t \in 0 .. problem.max_moves - 1 :
            /\ ~victory_conditions(piece_type, states[t + 1], problem.winning_player)
            /\ ~victory_conditions(piece_type, states[t + 1],
                                   Opponent(problem.winning_player))

\* The model the backend holds once every slot of the horizon is assigned.
FullModel ==
    /\ pc \in {"check", "returned"}
    /\ backend = "sat"
    /\ Len(moves) = problem.max_moves

\* C37: the base formula is prefix-closed.  A model of the formula for
\* horizon N, cut down to the layers 0..N' and the slots 0..N'-1 with
\* 1 <= N' < N, is a model of the formula for horizon N' with the same
\* initial position; and when a reachability witness of horizon N first
\* reaches the target at time k >= 1, the query of horizon k has a solution.
C37_PrefixClosed ==
    /\ FullModel
       => LET init == InitialStates[problem.initial_state]
              N == problem.max_moves
          IN  /\ create_base_solver(N, init, piece_type, states, moves)
              /\ \A n \in 1 .. (N - 1) :
                     create_base_solver(n, init, piece_type,
                                        SubSeq(states, 1, n + 1), SubSeq(moves, 1, n))
    /\ (result.kind = "ReachabilitySolution" /\ Len(result.moves) >= 1)
       => solve_returns(AtHorizon(problem, Len(result.moves)))

\* C37 witness: a reachability witness of horizon 3 that first reaches the
\* target at time 1 and captures in a slot before the last one.
C37_Witness ==
    /\ result.kind = "ReachabilitySolution"
    /\ problem.max_moves = 3
    /\ Len(result.moves) = 1
    /\ moves[2].captures >= 0

\* C38: every move changes the board.  A non-drop move ends on a square
\* other than the one it starts from, at most one row and one column away;
\* captures never names the moving piece; and a move with captures >= 0 is
\* never a drop.
C38_MoveChangesBoard ==
    \A t \in Slots :
        LET m == moves[t + 1]
        IN  /\ (~m.is_drop)
                => /\ <<m.to_row, m.to_col>> # <<m.from_row, m.from_col>>
                   /\ Abs(m.to_row - m.from_row) <= 1
                   /\ Abs(m.to_col - m.from_col) <= 1
                   /\ <<m.from_row, m.from_col>>
                          = <<states[t + 1][m.piece_id].row, states[t + 1][m.piece_id].col>>
                   /\ <<m.to_row, m.to_col>>
                          = <<states[t + 2][m.piece_id].row, states[t + 2][m.piece_id].col>>
            /\ m.captures # m.piece_id
            /\ (m.captures >= 0) => ~m.is_drop

\* C38 witness: a trajectory with a capturing step, a step by a Giraffe and
\* a drop.
C38_Witness ==
    /\ \E t \in Slots : moves[t + 1].captures >= 0 /\ ~moves[t + 1].is_drop
    /\ \E t \in Slots :
           /\ ~moves[t + 1].is_drop
           /\ piece_type[moves[t + 1].piece_id] = GIRAFFE
    /\ \E t \in Slots : moves[t + 1].is_drop

\* C39: when the list pins all eight pieces, at every layer a captured piece
\* is not promoted and a promoted piece is a Chick.
C39_HandIsUnpromoted ==
    FullySpecified(InitialStates[problem.initial_state])
    => \A i \in 1 .. Len(states) : \A p \in PieceId :
           /\ states[i][p].captured => ~states[i][p].promoted
           /\ states[i][p].promoted => piece_type[p] = CHICK

\* C39 witness: a Chick that was promoted on the board is in hand at the
\* latest layer.
C39_Witness ==
    /\ FullySpecified(InitialStates[problem.initial_state])
    /\ Len(states) >= 1
    /\ \E p \in PieceId :
           /\ states[Len(states)][p].captured
           /\ \E i \in 1 .. Len(states) : states[i][p].promoted
====
